---- MODULE Spec2Model ----
(***************************************************************************)
(* State-machine model of the striker_polymarket_api acquisition layer:    *)
(*   - the gated market fetcher            (src/fetch_clv.py)              *)
(*   - the offset pager                    (src/fetch.py, rest_api/fetch)  *)
(*   - the graph pager and backfill fetcher (subgraph_api/fetch_subgraph)  *)
(*   - the CLV aggregator                  (striker_polymarket_api/rest)   *)
(* Each component has its own specification over the shared variables; the *)
(* variables of the other components stay at their initial values.         *)
(***************************************************************************)
EXTENDS Integers, Sequences, FiniteSets, TLC

VARIABLES
    \* ---- gated market fetcher (src/fetch_clv.py) ----
    simultaneous_requests,      \* capacity given to Semaphore(...) by fetch_clv
    max_workers,                \* size of the ThreadPoolExecutor
    condition_ids,              \* unique condition ids of the input dataset
    semaphore,                  \* permits currently available
    phase,                      \* position of fetch_all_trades_parallel
    markets_to_process,         \* argument of the running processing loop
    future,                     \* state of each market's future in the pool
    th,                         \* locals of each market's worker thread
    all_trades_accumulator,     \* locals of the processing loop
    failed_markets_accumulator,
    all_trades,                 \* locals of fetch_all_trades_parallel
    failed_markets,
    final_failed_markets,
    returned,                   \* value returned by fetch_all_trades_parallel
    stdout,                     \* market ids printed as permanently failed
    passLog,                    \* history: classification of each market per pass
    starts,                     \* history: how often each market's fetch was started
    dropped,                    \* history: trades of each market's failed fetch, per pass
    \* ---- offset pager (src/fetch.py, src/striker_polymarket_api/rest_api/fetch.py) ----
    num_processes,              \* workers of all_data_parallel
    records_per_process,        \* size of every worker's window
    total_records,              \* records the server holds for the user
    worker,                     \* locals of every fetch_range process
    all_data,                   \* all_data of all_data_parallel (merged results)
    page_failed,                \* history: some page request did not return 200
    \* ---- batched PNL fetch and backfill (subgraph_api/fetch_subgraph.py) ----
    unique_condition_ids,       \* ids asked by fetch_positions_from_rest
    server_records,             \* records the server holds per condition id
    bulk_omitted,               \* ids the server leaves out of bulk answers
    batch,                      \* locals of every _fetch_batch_pnl process
    all_pnl_data,               \* all_pnl_data of fetch_from_rest
    rest_pc,                    \* position of fetch_positions_from_rest
    df_rest,                    \* df_rest of fetch_positions_from_rest
    missing_list,               \* missing_list of fetch_missing
    miss,                       \* locals of the loop of fetch_missing
    additional_data,            \* additional_data of fetch_missing
    single_failed,              \* history: a single-id request did not return 200
    \* ---- graph pager (subgraph_api/fetch_subgraph.py) ----
    batch_size,                 \* batch_size of get_all_user_positions (P)
    subgraph_total,             \* balances the subgraph holds for the user
    skip,                       \* skip of get_all_user_positions
    all_positions,              \* all_positions of get_all_user_positions
    graph_pc,                   \* position of get_all_user_positions
    graph_log,                  \* history: every page request and its answer
    graph_returned,             \* value returned by get_all_user_positions
    \* ---- CLV aggregator (striker_polymarket_api/rest.py) ----
    clv_pc,                     \* position of calculate_clv
    positions,                  \* rows of the input dataset df
    clv_df,                     \* clv_df: columns and per-row computed values
    trades_df,                  \* trades_df returned by fetch_clv
    groups,                     \* trade groups the loop has still to visit
    clv_results,                \* clv_results
    clv_reasons,                \* clv_reasons
    clv_returned,               \* value returned by calculate_clv
    \* ---- reference price (src/price_history.py) ----
    price_history,              \* price_history given to extract_match_start_price
    match_ts,                   \* int(match_datetime.timestamp())
    max_hours_before,           \* max_hours_before
    price_pc,                   \* position of extract_match_start_price
    price_result,               \* value returned by extract_match_start_price
    \* ---- backoff of the offset pager (page / _fetch_page) ----
    delay_process_id,           \* process_id given to page (0: None)
    delay_retry_count,          \* retry_count of the next call of page
    total_delay,                \* total_delay slept on the latest 429
    previous_delay,             \* history: total_delay of the 429 before it
    \* ---- position splitting (split_positions) ----
    raw_positions,              \* positions given to split_positions
    split_pc,                   \* position of split_positions
    split_i,                    \* index of the next position of the for loop
    active,                     \* active
    closed,                     \* closed
    \* ---- per-row reference prices (process_dataframe, src/price_history.py) ----
    row_df,                     \* rows of the dataset df given to process_dataframe
    row_num_processes,          \* num_processes of process_dataframe
    row_pc,                     \* position of process_dataframe
    batches,                    \* batches of process_dataframe
    row_future,                 \* state of every batch's future in the pool
    results,                    \* results of every process_batch call
    all_results,                \* all_results of process_dataframe
    result_df,                  \* column match_start_price of result_df, per row
    \* ---- market metadata (_fetch_market_data / fetch_market_data) ----
    meta_fn,                    \* which of the two functions runs
    unique_slugs,               \* unique_slugs
    meta_batch_size,            \* batch_size
    meta_i,                     \* i of the for loop
    all_data_dict,              \* all_data_dict
    meta_pc,                    \* position of the function
    meta_failed                 \* history: slugs of the batches whose request failed

gateVars == << simultaneous_requests, max_workers, condition_ids, semaphore, phase,
               markets_to_process, future, th, all_trades_accumulator,
               failed_markets_accumulator, all_trades, failed_markets,
               final_failed_markets, returned, stdout, passLog, starts,
               dropped >>

pagerVars == << num_processes, records_per_process, total_records, worker,
                all_data, page_failed >>

pnlVars == << unique_condition_ids, server_records, bulk_omitted, batch,
              all_pnl_data, rest_pc, df_rest, missing_list, miss,
              additional_data, single_failed >>

graphVars == << batch_size, subgraph_total, skip, all_positions, graph_pc,
                graph_log, graph_returned >>

clvVars == << clv_pc, positions, clv_df, trades_df, groups, clv_results,
              clv_reasons, clv_returned >>

priceVars == << price_history, match_ts, max_hours_before, price_pc, price_result >>

delayVars == << delay_process_id, delay_retry_count, total_delay, previous_delay >>

splitVars == << raw_positions, split_pc, split_i, active, closed >>

rowVars == << row_df, row_num_processes, row_pc, batches, row_future, results,
              all_results, result_df >>

metaVars == << meta_fn, unique_slugs, meta_batch_size, meta_i, all_data_dict,
               meta_pc, meta_failed >>

vars == << gateVars, pagerVars, pnlVars, graphVars, clvVars, priceVars, delayVars,
           splitVars, rowVars, metaVars >>

(***************************************************************************)
(* Generic helpers                                                         *)
(***************************************************************************)
Range(s) == { s[i] : i \in DOMAIN s }

RECURSIVE SumSeq(_)
SumSeq(s) == IF s = << >> THEN 0 ELSE Head(s) + SumSeq(Tail(s))

Min2(a, b) == IF a <= b THEN a ELSE b

(***************************************************************************)
(* Values of a component's variables while another component is checked    *)
(***************************************************************************)
nonGateVars == << pagerVars, pnlVars, graphVars, clvVars, priceVars, delayVars,
    splitVars, rowVars, metaVars >>

NoDataset == [rows |-> 0, columns |-> {}, match_start_price |-> << >>,
              price_clv |-> << >>]

NoTrades == [kind |-> "none", rows |-> << >>]

ClvIdle ==
    /\ clv_pc = "idle"
    /\ positions = << >>
    /\ clv_df = NoDataset
    /\ trades_df = NoTrades
    /\ groups = << >>
    /\ clv_results = << >>
    /\ clv_reasons = << >>
    /\ clv_returned = NoDataset

DelayIdle ==
    /\ delay_process_id = 0
    /\ delay_retry_count = 0
    /\ total_delay = << >>
    /\ previous_delay = << >>

SplitIdle ==
    /\ raw_positions = << >>
    /\ split_pc = "idle"
    /\ split_i = 0
    /\ active = << >>
    /\ closed = << >>

RowsIdle ==
    /\ row_df = << >>
    /\ row_num_processes = 0
    /\ row_pc = "idle"
    /\ batches = << >>
    /\ row_future = << >>
    /\ results = << >>
    /\ all_results = << >>
    /\ result_df = << >>

MetaIdle ==
    /\ meta_fn = "none"
    /\ unique_slugs = << >>
    /\ meta_batch_size = 0
    /\ meta_i = 0
    /\ all_data_dict = << >>
    /\ meta_pc = "idle"
    /\ meta_failed = {}

PriceIdle ==
    /\ price_history = [kind |-> "none", history |-> << >>]
    /\ match_ts = 0
    /\ max_hours_before = 0
    /\ price_pc = "idle"
    /\ price_result = << >>

GraphIdle ==
    /\ batch_size = 0
    /\ subgraph_total = 0
    /\ skip = 0
    /\ all_positions = << >>
    /\ graph_pc = "idle"
    /\ graph_log = << >>
    /\ graph_returned = << >>

PnlIdle ==
    /\ unique_condition_ids = << >>
    /\ server_records = << >>
    /\ bulk_omitted = {}
    /\ batch = << >>
    /\ all_pnl_data = << >>
    /\ rest_pc = "idle"
    /\ df_rest = << >>
    /\ missing_list = << >>
    /\ miss = [i |-> 0, offset |-> 0, condition_data |-> << >>, requests |-> 0]
    /\ additional_data = << >>
    /\ single_failed = FALSE

PagerIdle ==
    /\ num_processes = 0
    /\ records_per_process = 0
    /\ total_records = 0
    /\ worker = << >>
    /\ all_data = << >>
    /\ page_failed = FALSE

(***************************************************************************)
(* Gated market fetcher                                                    *)
(***************************************************************************)
\* Bounds of the model
NumMarkets == 2          \* condition ids in the input dataset
MaxCapacity == 2         \* largest gate capacity tried
MaxPool == 2             \* largest thread-pool size tried
PageLimit == 2           \* records of a full trades page (limit)
DfRows == 3              \* rows of the input dataset

\* The server holds at most this many trades of one market: a full page and
\* a short one
TradesHeld == 2 * PageLimit - 1

\* Program constant: max_retries handed to every page call by
\* fetch_trades_for_market_complete
max_retries == 3

AllMarkets == 1 .. NumMarkets

\* What the HTTP transport can answer to one trades-page request.
TradeResponses ==
    { [kind |-> "ok", n |-> i] : i \in 0 .. PageLimit }
    \cup { [kind |-> k, n |-> 0] :
             k \in {"badjson", "s429", "s408", "fatal", "neterr"} }

NoThread == [pc |-> "none", offset |-> 0, internal_retry_count |-> 0,
             all_trades |-> 0, requests |-> 0, slept |-> 0]

NoResult == [kind |-> "none", success |-> FALSE, trades |-> 0, exit |-> "none"]

NoLog == [m \in AllMarkets |-> "none"]

\* Number of trade-page HTTP requests in flight
InFlight == Cardinality({ m \in AllMarkets : th[m].pc = "inflight" })

\* Number of page calls between semaphore.acquire() and semaphore.release()
Holding == Cardinality({ m \in AllMarkets : th[m].pc \in {"issue", "inflight"} })

Running == { m \in AllMarkets : future[m].st = "running" }

\* df['conditionId'].dropna().unique().tolist(): nulls (written 0) dropped,
\* first occurrence of every id kept, in order of appearance
RECURSIVE UniqueIds(_, _)
UniqueIds(col, seen) ==
    IF col = << >> THEN << >>
    ELSE IF Head(col) = 0 \/ Head(col) \in seen
         THEN UniqueIds(Tail(col), seen)
         ELSE << Head(col) >> \o UniqueIds(Tail(col), seen \cup {Head(col)})

\* The conditionId columns tried as input: every column of up to DfRows
\* rows over the ids and null, the ids being numbered in the order in which
\* they first appear in the column
InputColumns ==
    { col \in UNION { [1 .. k -> AllMarkets \cup {0}] : k \in 0 .. DfRows } :
        \A i \in DOMAIN col :
            col[i] > 1 => \E j \in 1 .. (i - 1) : col[j] = col[i] - 1 }

GateInit ==
    /\ PagerIdle
    /\ PnlIdle
    /\ GraphIdle
    /\ ClvIdle
    /\ PriceIdle
    /\ DelayIdle
    /\ SplitIdle
    /\ RowsIdle
    /\ MetaIdle
    /\ simultaneous_requests \in 1 .. MaxCapacity
    /\ max_workers \in 1 .. MaxPool
    /\ \E col \in InputColumns : condition_ids = UniqueIds(col, {})
    /\ semaphore = simultaneous_requests
    /\ phase = "pass1"
    /\ markets_to_process = condition_ids
    /\ future = [m \in AllMarkets |->
                   [st |-> IF m \in Range(condition_ids) THEN "pending" ELSE "none",
                    result |-> NoResult]]
    /\ th = [m \in AllMarkets |-> NoThread]
    /\ all_trades_accumulator = << >>
    /\ failed_markets_accumulator = << >>
    /\ all_trades = << >>
    /\ failed_markets = << >>
    /\ final_failed_markets = << >>
    /\ returned = [kind |-> "none"]
    /\ stdout = << >>
    /\ passLog = [p \in 1 .. 2 |-> NoLog]
    /\ starts = [m \in AllMarkets |-> 0]
    /\ dropped = [p \in 1 .. 2 |-> [m \in AllMarkets |-> 0]]

\* The gated fetcher before fetch_clv is called
GateIdle ==
    /\ simultaneous_requests = 0
    /\ max_workers = 0
    /\ condition_ids = << >>
    /\ semaphore = 0
    /\ phase = "idle"
    /\ markets_to_process = << >>
    /\ future = [m \in AllMarkets |-> [st |-> "none", result |-> NoResult]]
    /\ th = [m \in AllMarkets |-> NoThread]
    /\ all_trades_accumulator = << >>
    /\ failed_markets_accumulator = << >>
    /\ all_trades = << >>
    /\ failed_markets = << >>
    /\ final_failed_markets = << >>
    /\ returned = [kind |-> "none"]
    /\ stdout = << >>
    /\ passLog = [p \in 1 .. 2 |-> NoLog]
    /\ starts = [m \in AllMarkets |-> 0]
    /\ dropped = [p \in 1 .. 2 |-> [m \in AllMarkets |-> 0]]

PassNo == IF phase = "pass1" THEN 1 ELSE 2

\* The pool's work queue is FIFO: the next task to start is the first
\* submitted one that no worker thread has taken yet.
NextPending ==
    LET idx == { i \in DOMAIN markets_to_process :
                   future[markets_to_process[i]].st = "pending" }
    IN  IF idx = {} THEN {}
        ELSE { markets_to_process[CHOOSE i \in idx : \A j \in idx : i <= j] }

\* A worker thread of the pool takes the next submitted market
\* (process_single_market_wrapper -> fetch_trades_for_market_complete).
StartMarket(m) ==
    /\ UNCHANGED nonGateVars
    /\ phase \in {"pass1", "pass2"}
    /\ m \in NextPending
    /\ Cardinality(Running) < max_workers
    /\ future' = [future EXCEPT ![m].st = "running"]
    /\ th' = [th EXCEPT ![m] = [NoThread EXCEPT !.pc = "acquire"]]
    /\ starts' = [starts EXCEPT ![m] = starts[m] + 1]
    /\ UNCHANGED << simultaneous_requests, max_workers, condition_ids, semaphore,
                    phase, markets_to_process, all_trades_accumulator,
                    failed_markets_accumulator, all_trades, failed_markets,
                    final_failed_markets, returned, stdout, passLog,
                    dropped >>

\* semaphore.acquire() blocks while no permit is available
CanAcquireAlways == TRUE
CanAcquire == semaphore > 0

SemaphoreAcquire(m) ==
    /\ UNCHANGED nonGateVars
    /\ th[m].pc = "acquire"
    /\ CanAcquire
    /\ semaphore' = semaphore - 1
    /\ th' = [th EXCEPT ![m].pc = "issue"]
    /\ UNCHANGED << simultaneous_requests, max_workers, condition_ids, phase,
                    markets_to_process, future, all_trades_accumulator,
                    failed_markets_accumulator, all_trades, failed_markets,
                    final_failed_markets, returned, stdout, passLog, starts,
                    dropped >>

\* requests.get(url, params, timeout=30) is issued
RequestsGet(m) ==
    /\ UNCHANGED nonGateVars
    /\ th[m].pc = "issue"
    /\ th' = [th EXCEPT ![m].pc = "inflight",
                        ![m].requests = th[m].requests + 1,
                        ![m].slept = 0]
    /\ UNCHANGED << simultaneous_requests, max_workers, condition_ids, semaphore,
                    phase, markets_to_process, future, all_trades_accumulator,
                    failed_markets_accumulator, all_trades, failed_markets,
                    final_failed_markets, returned, stdout, passLog, starts,
                    dropped >>

\* time.sleep(5) after a failed connection
ConnectionDelay == 5

\* delay = min(10 + (2 ** internal_retry_count), 30), in seconds
RetryDelay(k) == Min2(10 + 2 ^ k, 30)

\* One iteration of the while loop of fetch_trades_for_single_market_page,
\* from the answer of requests.get to `continue`, `return` or a raised
\* exception. rc is internal_retry_count.
PageStepOneAttemptLess(rc, r) ==
    CASE r.kind = "neterr" ->
           IF rc + 1 >= max_retries
           THEN [act |-> "return", success |-> FALSE, n |-> 0, rc |-> rc + 1,
                 exit |-> "net_exhausted", sleep |-> 0]
           ELSE [act |-> "continue", success |-> FALSE, n |-> 0, rc |-> rc + 1,
                 exit |-> "none", sleep |-> ConnectionDelay]
      [] r.kind = "ok" ->
           [act |-> "return", success |-> TRUE, n |-> r.n, rc |-> rc,
            exit |-> "success", sleep |-> 0]
      [] r.kind = "badjson" ->
           [act |-> "raise", success |-> FALSE, n |-> 0, rc |-> rc,
            exit |-> "exception", sleep |-> 0]
      [] r.kind \in {"s429", "s408"} ->
           IF rc + 1 >= max_retries
           THEN [act |-> "return", success |-> FALSE, n |-> 0, rc |-> rc + 1,
                 exit |-> "rate_exhausted", sleep |-> 0]
           ELSE [act |-> "continue", success |-> FALSE, n |-> 0, rc |-> rc + 1,
                 exit |-> "none", sleep |-> RetryDelay(rc + 1)]
      [] OTHER ->
           [act |-> "return", success |-> FALSE, n |-> 0, rc |-> rc,
            exit |-> "fatal", sleep |-> 0]
PageStepRetriesStatus(rc, r) ==
    CASE r.kind = "neterr" ->
           IF rc + 1 > max_retries
           THEN [act |-> "return", success |-> FALSE, n |-> 0, rc |-> rc + 1,
                 exit |-> "net_exhausted", sleep |-> 0]
           ELSE [act |-> "continue", success |-> FALSE, n |-> 0, rc |-> rc + 1,
                 exit |-> "none", sleep |-> ConnectionDelay]
      [] r.kind = "ok" ->
           [act |-> "return", success |-> TRUE, n |-> r.n, rc |-> rc,
            exit |-> "success", sleep |-> 0]
      [] r.kind = "badjson" ->
           [act |-> "raise", success |-> FALSE, n |-> 0, rc |-> rc,
            exit |-> "exception", sleep |-> 0]
      [] r.kind \in {"s429", "s408"} ->
           IF rc + 1 > max_retries
           THEN [act |-> "return", success |-> FALSE, n |-> 0, rc |-> rc + 1,
                 exit |-> "rate_exhausted", sleep |-> 0]
           ELSE [act |-> "continue", success |-> FALSE, n |-> 0, rc |-> rc + 1,
                 exit |-> "none", sleep |-> RetryDelay(rc + 1)]
      [] OTHER ->
           IF rc + 1 > max_retries
           THEN [act |-> "return", success |-> FALSE, n |-> 0, rc |-> rc + 1,
                 exit |-> "fatal", sleep |-> 0]
           ELSE [act |-> "continue", success |-> FALSE, n |-> 0, rc |-> rc + 1,
                 exit |-> "none", sleep |-> RetryDelay(rc + 1)]
PageStep(rc, r) ==
    CASE r.kind = "neterr" ->
           IF rc + 1 > max_retries
           THEN [act |-> "return", success |-> FALSE, n |-> 0, rc |-> rc + 1,
                 exit |-> "net_exhausted", sleep |-> 0]
           ELSE [act |-> "continue", success |-> FALSE, n |-> 0, rc |-> rc + 1,
                 exit |-> "none", sleep |-> ConnectionDelay]
      [] r.kind = "ok" ->
           [act |-> "return", success |-> TRUE, n |-> r.n, rc |-> rc,
            exit |-> "success", sleep |-> 0]
      [] r.kind = "badjson" ->
           [act |-> "raise", success |-> FALSE, n |-> 0, rc |-> rc,
            exit |-> "exception", sleep |-> 0]
      [] r.kind \in {"s429", "s408"} ->
           IF rc + 1 > max_retries
           THEN [act |-> "return", success |-> FALSE, n |-> 0, rc |-> rc + 1,
                 exit |-> "rate_exhausted", sleep |-> 0]
           ELSE [act |-> "continue", success |-> FALSE, n |-> 0, rc |-> rc + 1,
                 exit |-> "none", sleep |-> RetryDelay(rc + 1)]
      [] OTHER ->
           [act |-> "return", success |-> FALSE, n |-> 0, rc |-> rc,
            exit |-> "fatal", sleep |-> 0]

\* Permits given back by the finally block when the page call is left by
\* the exit path `exit`
FinallyForgetsException(exit) == IF exit = "exception" THEN 0 ELSE 1
FinallyOnSuccessOnly(exit) == IF exit = "success" THEN 1 ELSE 0
Finally(exit) == 1

\* The server answers a full page only while it holds more trades.
Answers(offset) ==
    { r \in TradeResponses :
        r.kind = "ok" /\ r.n = PageLimit
            => offset + PageLimit <= TradesHeld }

\* fetch_trades_for_market_complete goes on to the next page after a
\* successful page that is neither empty nor shorter than limit
ContinuesWhileNotEmpty(success, n) == success /\ n > 0
PaginationContinues(success, n) == success /\ n = PageLimit

\* The answer to the request in flight arrives and the thread runs up to its
\* next semaphore operation or to the end of its task.
Respond(m, r) ==
    /\ UNCHANGED nonGateVars
    /\ th[m].pc = "inflight"
    /\ r \in Answers(th[m].offset)
    /\ LET o == PageStep(th[m].internal_retry_count, r)
           collected == th[m].all_trades + o.n
       IN  IF o.act = "continue"
           THEN \* sleeps inside the gate and tries the while loop again
                /\ th' = [th EXCEPT ![m].pc = "issue",
                                    ![m].internal_retry_count = o.rc,
                                    ![m].slept = o.sleep]
                /\ UNCHANGED << semaphore, future >>
           ELSE /\ semaphore' = semaphore + Finally(o.exit)
                /\ IF o.act = "raise"
                   THEN \* the exception leaves the wrapper: future.result() raises
                        /\ future' = [future EXCEPT ![m] =
                              [st |-> "done",
                               result |-> [kind |-> "raised", success |-> FALSE,
                                           trades |-> 0, exit |-> o.exit]]]
                        /\ th' = [th EXCEPT ![m] = NoThread]
                   ELSE IF PaginationContinues(o.success, o.n)
                   THEN \* full page: offset += limit, next page call
                        /\ th' = [th EXCEPT ![m] =
                              [pc |-> "acquire", offset |-> th[m].offset + PageLimit,
                               internal_retry_count |-> 0,
                               all_trades |-> collected, requests |-> 0,
                               slept |-> 0]]
                        /\ UNCHANGED future
                   ELSE \* failed page, empty page or short page: the loop breaks
                        /\ future' = [future EXCEPT ![m] =
                              [st |-> "done",
                               result |-> [kind |-> "returned", success |-> o.success,
                                           trades |-> collected, exit |-> o.exit]]]
                        /\ th' = [th EXCEPT ![m] = NoThread]
    /\ UNCHANGED << simultaneous_requests, max_workers, condition_ids, phase,
                    markets_to_process, all_trades_accumulator,
                    failed_markets_accumulator, all_trades, failed_markets,
                    final_failed_markets, returned, stdout, passLog, starts,
                    dropped >>

\* One trade chunk of the aggregate: the trades one market fetch returned,
\* each tagged with market_id_v3
TaggedWithFirstMarket(result_market_id, m, count) ==
    [market_id_v3 |-> condition_ids[1], origin |-> m, count |-> count]
Tagged(result_market_id, m, count) ==
    [market_id_v3 |-> result_market_id, origin |-> m, count |-> count]

\* The else branch of `if success`: the trades that came with a failed
\* fetch are not extended into the accumulator
KeepsPartialTrades(accumulator, m, trades) ==
    IF trades > 0 THEN Append(accumulator, Tagged(m, m, trades)) ELSE accumulator
FailedMarketTrades(accumulator, m, trades) == accumulator

\* Body of the as_completed loop of the processing loop for the finished
\* future of market m.
Collect(m) ==
    /\ UNCHANGED nonGateVars
    /\ phase \in {"pass1", "pass2"}
    /\ future[m].st = "done"
    /\ LET res == future[m].result IN
       IF res.kind = "returned" /\ res.success
       THEN /\ all_trades_accumulator' =
                 IF res.trades > 0
                 THEN Append(all_trades_accumulator, Tagged(m, m, res.trades))
                 ELSE all_trades_accumulator
            /\ passLog' = [passLog EXCEPT ![PassNo][m] = "succeeded"]
            /\ UNCHANGED << failed_markets_accumulator, dropped >>
       ELSE \* controlled failure, or future.result() raised
            /\ failed_markets_accumulator' = Append(failed_markets_accumulator, m)
            /\ passLog' = [passLog EXCEPT ![PassNo][m] = "failed"]
            /\ all_trades_accumulator' =
                  FailedMarketTrades(all_trades_accumulator, m, res.trades)
            /\ dropped' = [dropped EXCEPT ![PassNo][m] = res.trades]
    /\ future' = [future EXCEPT ![m] = [st |-> "collected", result |-> NoResult]]
    /\ UNCHANGED << simultaneous_requests, max_workers, condition_ids, semaphore,
                    phase, markets_to_process, th, all_trades, failed_markets,
                    final_failed_markets, returned, stdout, starts >>

\* The processing loop returns once every submitted future was handled.
LoopReturns ==
    \A i \in DOMAIN markets_to_process :
        future[markets_to_process[i]].st = "collected"

\* The markets handed to the second pass
RetryEverything(failed) == condition_ids
RetrySet(failed) == failed

\* What fetch_all_trades_parallel prints about permanently failed markets
PrintNothing(failed) == << >>
PrintFailed(failed) == failed

\* What fetch_all_trades_parallel hands back: a DataFrame of the trades
\* (an empty one when there is none)
ReturnValue(trades) == [kind |-> "DataFrame", trades |-> trades]

\* all_trades_accumulator = [] at the top of _run_market_processing_loop
KeptAccumulator(previous) == previous
NewAccumulator(previous) == << >>

\* First pass over: some market failed, the loop is run again on the failed ones.
FirstPassRetry ==
    /\ UNCHANGED nonGateVars
    /\ phase = "pass1"
    /\ LoopReturns
    /\ failed_markets_accumulator # << >>
    /\ all_trades' = all_trades_accumulator
    /\ failed_markets' = failed_markets_accumulator
    /\ markets_to_process' = RetrySet(failed_markets_accumulator)
    /\ future' = [m \in AllMarkets |->
                    [st |-> IF m \in Range(markets_to_process') THEN "pending" ELSE "none",
                     result |-> NoResult]]
    /\ all_trades_accumulator' = NewAccumulator(all_trades_accumulator)
    /\ failed_markets_accumulator' = << >>
    /\ phase' = "pass2"
    /\ UNCHANGED << simultaneous_requests, max_workers, condition_ids, semaphore, th,
                    final_failed_markets, returned, stdout, passLog, starts,
                    dropped >>

\* First pass over and no market failed: the trades are returned.
FirstPassClean ==
    /\ UNCHANGED nonGateVars
    /\ phase = "pass1"
    /\ LoopReturns
    /\ failed_markets_accumulator = << >>
    /\ all_trades' = all_trades_accumulator
    /\ failed_markets' = << >>
    /\ returned' = ReturnValue(all_trades')
    /\ phase' = "returned"
    /\ UNCHANGED << simultaneous_requests, max_workers, condition_ids, semaphore,
                    markets_to_process, future, th, all_trades_accumulator,
                    failed_markets_accumulator, final_failed_markets, stdout, passLog, starts,
                    dropped >>

\* Retry pass over: its trades are added, the markets that failed again are
\* printed, the trades are returned.
SecondPassDone ==
    /\ UNCHANGED nonGateVars
    /\ phase = "pass2"
    /\ LoopReturns
    /\ all_trades' = all_trades \o all_trades_accumulator
    /\ final_failed_markets' = failed_markets_accumulator
    /\ stdout' = PrintFailed(final_failed_markets')
    /\ returned' = ReturnValue(all_trades')
    /\ phase' = "returned"
    /\ UNCHANGED << simultaneous_requests, max_workers, condition_ids, semaphore,
                    markets_to_process, future, th, all_trades_accumulator,
                    failed_markets_accumulator, failed_markets, passLog, starts,
                    dropped >>

GateNext ==
    \/ \E m \in AllMarkets : StartMarket(m)
    \/ \E m \in AllMarkets : SemaphoreAcquire(m)
    \/ \E m \in AllMarkets : RequestsGet(m)
    \/ \E m \in AllMarkets : \E r \in TradeResponses : Respond(m, r)
    \/ \E m \in AllMarkets : Collect(m)
    \/ FirstPassRetry
    \/ FirstPassClean
    \/ SecondPassDone

GateSpec == GateInit /\ [][GateNext]_vars

\* The pool runs a runnable thread, a blocked acquire returns once a permit
\* is free, and every request is answered or times out (timeout=30): a
\* step that can be taken is eventually taken.
GateLiveSpec == GateSpec /\ WF_vars(GateNext)

(***************************************************************************)
(* Claims about the gated market fetcher                                   *)
(***************************************************************************)
NoDuplicates(s) == Cardinality(Range(s)) = Len(s)

FailedIn(p) == { m \in AllMarkets : passLog[p][m] = "failed" }
SucceededIn(p) == { m \in AllMarkets : passLog[p][m] = "succeeded" }

\* C1 (gate invariant): at every instant the number of trade-page requests
\* in flight is at most the capacity of the gate, whatever the number of
\* markets, the pool size and the capacity are.
C1_GateInvariant == InFlight <= simultaneous_requests

\* C1 witness: the gate is full, the pool is larger than the gate and a
\* thread is blocked in acquire.
C1_Witness ==
    /\ InFlight = simultaneous_requests
    /\ max_workers > simultaneous_requests
    /\ \E m \in AllMarkets : th[m].pc = "acquire"

\* C2 (no permit leak): the permits available plus the page calls that are
\* between acquire and release always add up to the capacity, so whenever no
\* page call is running every permit is available, in particular after the
\* first pass and after the retry pass.
C2_NoPermitLeak ==
    /\ semaphore + Holding = simultaneous_requests
    /\ Holding = 0 => semaphore = simultaneous_requests
    /\ (phase = "returned" \/ LoopReturns) => semaphore = simultaneous_requests

\* C2 witness: in the retry pass a page call was left by an exception (a 200
\* body that is no JSON), no page call is running and all permits are back.
C2_Witness ==
    /\ phase = "pass2"
    /\ Holding = 0
    /\ semaphore = simultaneous_requests
    /\ \E m \in AllMarkets :
          future[m].st = "done" /\ future[m].result.exit = "exception"

\* C4 (two-phase retry): the retry pass runs exactly when a market failed in
\* the first pass, over exactly the markets that failed there; a market that
\* succeeded in the first pass is not fetched again, no market is fetched more
\* than twice, and at the end every requested market is classified exactly
\* once, as succeeded or as finally failed.
C4_TwoPhaseRetry ==
    /\ \A m \in AllMarkets :
          /\ starts[m] <= 2
          /\ passLog[1][m] = "succeeded" => starts[m] = 1
          /\ passLog[2][m] # "none" => passLog[1][m] = "failed"
          /\ m \notin Range(condition_ids) => starts[m] = 0
    /\ phase = "pass1" => \A m \in AllMarkets : starts[m] <= 1
    /\ phase = "pass2" =>
          /\ Range(markets_to_process) = FailedIn(1)
          /\ NoDuplicates(markets_to_process)
          /\ FailedIn(1) # {}
          /\ SucceededIn(1) \cup FailedIn(1) = Range(condition_ids)
    /\ phase = "returned" =>
          /\ SucceededIn(1) \cup FailedIn(1) = Range(condition_ids)
          /\ SucceededIn(2) \cup FailedIn(2) = FailedIn(1)
          /\ NoDuplicates(final_failed_markets)
          /\ Range(final_failed_markets) = FailedIn(2)
          /\ \A m \in Range(condition_ids) :
                (m \in SucceededIn(1) \cup SucceededIn(2))
                    # (m \in Range(final_failed_markets))

\* C4 witness: the fetch has returned; one market succeeded in the first
\* pass, another failed in both passes.
C4_Witness ==
    /\ phase = "returned"
    /\ SucceededIn(1) # {}
    /\ FailedIn(2) # {}

\* C5 as stated: when markets failed permanently, the value returned holds
\* the list of these markets next to the trades.
C5_ReturnsFailedList ==
    (phase = "returned" /\ final_failed_markets # << >>) =>
        /\ "failed_markets" \in DOMAIN returned
        /\ returned.failed_markets = final_failed_markets
        /\ returned.trades = all_trades

\* C5 amended: the value returned is the dataset of the collected trades
\* alone, all of them from markets that succeeded; the permanently failed
\* markets are printed on standard output and are not part of the value.
C5_FailedOnlyPrinted ==
    phase = "returned" =>
        /\ DOMAIN returned = {"kind", "trades"}
        /\ returned.trades = all_trades
        /\ stdout = final_failed_markets
        /\ Range(stdout) = FailedIn(2)
        /\ \A i \in DOMAIN all_trades :
              all_trades[i].origin \in SucceededIn(1) \cup SucceededIn(2)

\* C5 witness: the fetch returned trades while a market failed permanently.
C5_Witness ==
    /\ phase = "returned"
    /\ final_failed_markets # << >>
    /\ all_trades # << >>

\* The state in which a run of _run_market_processing_loop over the markets
\* S begins: gate at full capacity, no thread at work, every market of S
\* submitted and no other, both accumulators empty
LoopStart(S) ==
    /\ markets_to_process = S
    /\ semaphore = simultaneous_requests
    /\ th = [m \in AllMarkets |-> NoThread]
    /\ future = [m \in AllMarkets |->
                   [st |-> IF m \in Range(S) THEN "pending" ELSE "none",
                    result |-> NoResult]]
    /\ all_trades_accumulator = << >>
    /\ failed_markets_accumulator = << >>

Classification(result) ==
    IF result.kind = "returned" /\ result.success THEN "succeeded" ELSE "failed"

\* C14 (two-phase retry idempotence): the retry pass begins in the state in
\* which a standalone run of the processing loop over the failed markets
\* begins (gate at full capacity, no partial trades, offsets or results of
\* the first pass left), and in either pass a market's fetch starts at
\* offset 0 without trades and its classification is decided by the outcome
\* of that fetch alone.
C14_RetryIdempotence ==
    [][ /\ (phase = "pass1" /\ phase' = "pass2") =>
              (failed_markets' # << >> /\ LoopStart(failed_markets)')
        /\ \A m \in AllMarkets :
              (future[m].st = "pending" /\ future'[m].st = "running") =>
                  th'[m] = [NoThread EXCEPT !.pc = "acquire"]
        /\ \A m \in AllMarkets :
              (future[m].st = "done" /\ future'[m].st = "collected") =>
                  /\ passLog'[PassNo][m] = Classification(future[m].result)
                  /\ \A q \in AllMarkets \ {m} :
                        passLog'[PassNo][q] = passLog[PassNo][q]
      ]_vars

C14_Witness ==
    /\ phase = "pass2"
    /\ all_trades # << >>
    /\ all_trades_accumulator # << >>
    /\ \E m \in AllMarkets :
          passLog[1][m] = "failed" /\ passLog[2][m] = "succeeded"

\* The answers with status 429 or 408
RateLimitAnswers == { [kind |-> k, n |-> 0] : k \in {"s429", "s408"} }

\* The page call of market m goes round its while loop: it sleeps `delay`
\* seconds and will repeat the request of the same page, its permit kept
RetriesSamePage(m, delay) ==
    /\ th'[m] = [th[m] EXCEPT !.pc = "issue",
                              !.internal_retry_count = @ + 1,
                              !.slept = delay]
    /\ semaphore' = semaphore
    /\ future' = future

\* The page call of market m returns ([], False) with no further request:
\* the permit goes back and the market returns what it had, not succeeded
PageFails(m, exit) ==
    /\ semaphore' = semaphore + 1
    /\ th'[m] = NoThread
    /\ future'[m] = [st |-> "done",
                     result |-> [kind |-> "returned", success |-> FALSE,
                                 trades |-> th[m].all_trades, exit |-> exit]]

\* C24 (inner retry of the gated page fetch): a page call makes at most
\* max_retries + 1 = 4 requests, the request in flight being number
\* internal_retry_count + 1.  When a request is answered by 429 or 408, the
\* call can only do this: if it was not the last allowed request, sleep
\* min(10 + 2^k, 30) seconds, k being the number of the retry, and repeat
\* the request of the same page without giving its permit back; if it was,
\* return ([], False).
C24_InnerRetry ==
    \A m \in AllMarkets :
       /\ th[m].requests <= 4
       /\ th[m].internal_retry_count <= max_retries
       /\ th[m].pc = "inflight" =>
             /\ th[m].requests = th[m].internal_retry_count + 1
             /\ \A r \in RateLimitAnswers :
                   /\ ENABLED Respond(m, r)
                   /\ ~ ENABLED
                        (Respond(m, r) /\
                           ~ (IF th[m].requests <= max_retries
                              THEN RetriesSamePage(m,
                                      Min2(10 + 2 ^ th[m].requests, 30))
                              ELSE PageFails(m, "rate_exhausted")))

\* C24 witness: a page call sleeps 18 seconds inside the gate after its
\* third failed request, before its fourth and last request.
C24_Witness ==
    \E m \in AllMarkets :
       /\ th[m].pc = "issue"
       /\ th[m].internal_retry_count = 3
       /\ th[m].requests = 3
       /\ th[m].slept = 18
       /\ semaphore < simultaneous_requests

\* C25 as stated (fatal page errors in the gated fetcher): a request that
\* raises a transport error, or is answered by a status that is neither
\* 2xx nor 429 nor 408, makes the page call return ([], False) at once, with
\* no further request.
C25_FailsWithoutRetry ==
    \A m \in AllMarkets :
       th[m].pc = "inflight" =>
          \A k \in {"neterr", "fatal"} :
             ~ ENABLED (Respond(m, [kind |-> k, n |-> 0]) /\
                          ~ \E e \in {"fatal", "net_exhausted"} : PageFails(m, e))

\* C25 amended: a status that is neither 200 nor 429 nor 408 makes the page
\* call return ([], False) at once, with no further request.  A transport
\* error is retried: the call sleeps 5 seconds and repeats the request of
\* the same page with its permit kept, and returns ([], False) only when
\* the failed request was the last of the max_retries + 1 allowed ones.
C25_OnlyStatusFailsAtOnce ==
    \A m \in AllMarkets :
       th[m].pc = "inflight" =>
          /\ ENABLED Respond(m, [kind |-> "fatal", n |-> 0])
          /\ ~ ENABLED (Respond(m, [kind |-> "fatal", n |-> 0]) /\
                          ~ PageFails(m, "fatal"))
          /\ ENABLED Respond(m, [kind |-> "neterr", n |-> 0])
          /\ ~ ENABLED
               (Respond(m, [kind |-> "neterr", n |-> 0]) /\
                  ~ (IF th[m].requests <= max_retries
                     THEN RetriesSamePage(m, 5)
                     ELSE PageFails(m, "net_exhausted")))

\* C25 witness: one market failed on a fatal status at its second page,
\* with the trade of its first page returned, while the page call of the
\* other sleeps 5 seconds inside the gate after a transport error.
C25_Witness ==
    \E m, k \in AllMarkets :
       /\ future[m].st = "done"
       /\ future[m].result.exit = "fatal"
       /\ future[m].result.trades = PageLimit
       /\ th[k].pc = "issue"
       /\ th[k].slept = 5

\* The step in which the fetch of market m ends
MarketEnds(m) == future[m].st = "running" /\ future'[m].st = "done"

\* The exits of a page call that did not succeed: it returned ([], False)
\* or it raised
FailedExits == {"fatal", "net_exhausted", "rate_exhausted", "exception"}

\* C26 (per-market pagination): a market fetch starts at offset 0 and its
\* offset changes only by +limit, after a successful full page whose trades
\* it has kept, so the pages are asked at 0, limit, 2*limit, ... in order.
\* The fetch ends at the first page call that fails, with the trades of the
\* earlier pages and overall_success = False, or at the first successful
\* page that is empty or shorter than limit, with overall_success = True;
\* once ended it asks no page.  The processing loop marks a market failed
\* exactly when a page call of its fetch failed.
C26_Pagination ==
    [][\A m \in AllMarkets :
          /\ (th[m].pc = "none" /\ th'[m].pc # "none") =>
                /\ th'[m].offset = 0
                /\ th'[m].all_trades = 0
          /\ (th[m].pc # "none" /\ th'[m].pc # "none"
                 /\ th'[m].offset # th[m].offset) =>
                /\ th'[m].offset = th[m].offset + PageLimit
                /\ th'[m].all_trades = th[m].all_trades + PageLimit
                /\ th[m].pc = "inflight"
                /\ th'[m].pc = "acquire"
                /\ th'[m].requests = 0
          /\ th'[m].all_trades = th'[m].offset
          /\ MarketEnds(m) =>
                /\ th[m].pc = "inflight"
                /\ th'[m] = NoThread
                /\ future'[m].result.success <=>
                      future'[m].result.exit = "success"
                /\ ~ future'[m].result.success =>
                      /\ future'[m].result.exit \in FailedExits
                      /\ future'[m].result.kind = "returned" =>
                            future'[m].result.trades = th[m].all_trades
                /\ future'[m].result.success =>
                      /\ future'[m].result.kind = "returned"
                      /\ future'[m].result.trades - th[m].all_trades
                            \in 0 .. (PageLimit - 1)
          /\ (future[m].st = "running") <=> (th[m].pc # "none")
          /\ passLog'[PassNo][m] # passLog[PassNo][m] =>
                /\ future[m].st = "done"
                /\ passLog'[PassNo][m] = "failed" <=>
                      future[m].result.exit \in FailedExits
                /\ passLog'[PassNo][m] = "succeeded" <=>
                      future[m].result.exit = "success"]_vars

\* C26 witness: one market ended with success on a short second page (a
\* full page and one trade), the other ended failed at its second page
\* with the trades of its first page.
C26_Witness ==
    \E m, k \in AllMarkets :
       /\ future[m].st = "done"
       /\ future[m].result.success
       /\ future[m].result.trades = PageLimit + 1
       /\ future[k].st = "done"
       /\ ~ future[k].result.success
       /\ future[k].result.kind = "returned"
       /\ future[k].result.trades = PageLimit

\* The step in which the processing loop handles the finished future of m
Collected(m) == future[m].st = "done" /\ future'[m].st = "collected"

\* A chunk of trades carries the id of the market whose fetch returned it
TaggedRight(chunk) ==
    /\ chunk.market_id_v3 = chunk.origin
    /\ chunk.origin \in Range(condition_ids)
    /\ chunk.count > 0

\* C27 (market tagging): when the loop handles a market whose fetch
\* succeeded with trades, it appends exactly those trades, each tagged with
\* market_id_v3 = the id of that market, and handling any other future adds
\* nothing; so after every step, in either pass, every trade of the
\* accumulator, of the aggregate and of the returned dataset carries the id
\* of the market whose fetch returned it, and the returned dataset is the
\* aggregate.
C27_MarketTagging ==
    [][/\ \A m \in AllMarkets :
             Collected(m) =>
                all_trades_accumulator' =
                   IF /\ future[m].result.kind = "returned"
                      /\ future[m].result.success
                      /\ future[m].result.trades > 0
                   THEN Append(all_trades_accumulator,
                               [market_id_v3 |-> m, origin |-> m,
                                count |-> future[m].result.trades])
                   ELSE all_trades_accumulator
       /\ \A chunk \in Range(all_trades_accumulator') \cup Range(all_trades') :
             TaggedRight(chunk)
       /\ returned'.kind = "DataFrame" => returned'.trades = all_trades']_vars

\* C27 witness: the returned dataset holds the trades of two markets, the
\* second collected in the retry pass after failing in the first, each
\* under its own id.
C27_Witness ==
    /\ phase = "returned"
    /\ returned.kind = "DataFrame"
    /\ Len(returned.trades) = 2
    /\ returned.trades[1].market_id_v3 # returned.trades[2].market_id_v3
    /\ passLog[1][returned.trades[1].origin] = "succeeded"
    /\ passLog[1][returned.trades[2].origin] = "failed"
    /\ passLog[2][returned.trades[2].origin] = "succeeded"
    /\ \A i \in 1 .. 2 : returned.trades[i].market_id_v3 = returned.trades[i].origin

\* The trades gathered so far over both passes
Aggregate ==
    IF phase = "returned" THEN all_trades
    ELSE all_trades \o all_trades_accumulator

ChunksOf(m) == { i \in DOMAIN Aggregate : Aggregate[i].origin = m }

FetchSucceeded(result) == result.kind = "returned" /\ result.success

\* What handling the finished future of m does to the accumulators
KeepsOrDrops(m) ==
    LET res == future[m].result
    IN  IF FetchSucceeded(res)
        THEN /\ all_trades_accumulator' =
                   IF res.trades > 0
                   THEN Append(all_trades_accumulator,
                               [market_id_v3 |-> m, origin |-> m,
                                count |-> res.trades])
                   ELSE all_trades_accumulator
             /\ failed_markets_accumulator' = failed_markets_accumulator
        ELSE /\ all_trades_accumulator' = all_trades_accumulator
             /\ failed_markets_accumulator' = Append(failed_markets_accumulator, m)

\* C35 (no trade from a failed market pass): the finished future of a
\* market whose fetch failed can only be handled by recording the market as
\* failed, the trades of its successful pages added nowhere; every fetch, a
\* retry included, can only start at offset 0 with no trades; so the
\* gathered trades hold at most one chunk per market, every chunk is that
\* of a market whose fetch succeeded in one of the passes and holds no more
\* trades than the server has for it, and a market without a successful
\* fetch has no trade in them.
C35_NoPartialTrades ==
    /\ \A m \in AllMarkets :
          /\ Cardinality(ChunksOf(m)) <= 1
          /\ ChunksOf(m) # {} => m \in SucceededIn(1) \cup SucceededIn(2)
          /\ (future[m].st = "done" /\ phase \in {"pass1", "pass2"}) =>
                /\ ENABLED Collect(m)
                /\ ~ ENABLED (Collect(m) /\ ~ KeepsOrDrops(m))
          /\ future[m].st = "pending" => th[m] = NoThread
          /\ ~ ENABLED (StartMarket(m) /\
                          ~ (th'[m].offset = 0 /\ th'[m].all_trades = 0))
          /\ \A p \in 1 .. 2 : dropped[p][m] > 0 => passLog[p][m] = "failed"
    /\ \A i \in DOMAIN Aggregate :
          /\ Aggregate[i].count \in 1 .. TradesHeld
          /\ Aggregate[i].market_id_v3 = Aggregate[i].origin
    /\ phase = "returned" => returned.trades = Aggregate

\* C35 witness: a market failed in the first pass after a full page of
\* trades, its retry succeeded with one trade, and the returned dataset
\* holds that one trade of it and nothing of the first pass.
C35_Witness ==
    /\ phase = "returned"
    /\ \E m \in AllMarkets :
          /\ dropped[1][m] = PageLimit
          /\ passLog[2][m] = "succeeded"
          /\ \E i \in DOMAIN returned.trades :
                /\ ChunksOf(m) = {i}
                /\ returned.trades[i].count = 1

\* Permits the thread of market m holds: one between acquire and release
PermitsHeld(m) == IF th[m].pc \in {"issue", "inflight"} THEN 1 ELSE 0

\* The thread of market m is blocked in semaphore.acquire()
Waiting(m) == th[m].pc = "acquire"

Classified(m) ==
    \/ passLog[1][m] = "succeeded"
    \/ passLog[2][m] = "succeeded"
    \/ m \in Range(final_failed_markets)

\* fetch_all_trades_parallel has returned, every market is classified and
\* every permit is back
Terminated ==
    /\ phase = "returned"
    /\ returned.kind = "DataFrame"
    /\ semaphore = simultaneous_requests
    /\ \A m \in AllMarkets : th[m] = NoThread
    /\ \A m \in Range(condition_ids) : Classified(m)

\* C37 (deadlock freedom and progress of the gated fetcher): for every
\* capacity >= 1, pool size and set of markets, the permits out are
\* exactly one for each page call between acquire and release, a thread
\* waits for a permit only while it holds none, a holder makes at most
\* max_retries + 1 requests, and until the fetch has returned some step is
\* always possible; every page call waiting on the gate eventually holds
\* a permit, and the fetch eventually has returned with every market
\* classified and all permits back, and stays so.
C37_GateProgress ==
    /\ [](/\ simultaneous_requests >= 1
          /\ semaphore >= 0
          /\ semaphore + SumSeq([m \in AllMarkets |-> PermitsHeld(m)])
                = simultaneous_requests
          /\ \A m \in AllMarkets :
                /\ PermitsHeld(m) <= 1
                /\ Waiting(m) => PermitsHeld(m) = 0
                /\ PermitsHeld(m) = 1 => th[m].requests <= max_retries + 1
          /\ phase # "returned" => ENABLED GateNext)
    /\ \A m \in AllMarkets : Waiting(m) ~> PermitsHeld(m) = 1
    /\ <>[]Terminated

\* C37 witness: with a gate of one permit and a pool of two, in the retry
\* pass, one page call sleeps inside the gate after a 429 or 408 while the
\* thread of the other market waits for the permit.
C37_Witness ==
    /\ simultaneous_requests = 1
    /\ max_workers = 2
    /\ phase = "pass2"
    /\ semaphore = 0
    /\ \E m, k \in AllMarkets :
          /\ th[m].pc = "issue"
          /\ th[m].slept > ConnectionDelay
          /\ Waiting(k)

(***************************************************************************)
(* Offset pager: fetch_range / page / all_data_parallel (src/fetch.py) and *)
(* the identical _fetch_range / _fetch_page / _fetch_positions_data        *)
(* (src/striker_polymarket_api/rest_api/fetch.py)                          *)
(***************************************************************************)
\* Bounds of the model
MaxProcesses == 2        \* largest num_processes tried
MaxPerProcess == 2       \* largest records_per_process tried
ExtraRecords == 1        \* records the server may hold beyond the last window
PagerLimit == 2          \* page size asked by a worker (max_limit)

\* Program constant: max_retries of fetch_range
range_max_retries == 5

nonPagerVars == << gateVars, pnlVars, graphVars, clvVars, priceVars, delayVars,
    splitVars, rowVars, metaVars >>

Workers == 1 .. num_processes

\* Records are named by their logical offset: the page the server returns
\* for `offset` with n records
PageData(offset, n) == [i \in 1 .. n |-> offset + i - 1]

\* The answers page() can get for a request (offset, limit): a 200 with a
\* non-empty list while records remain (short, full, or one record longer
\* than asked), a 200
\* with an empty list at the end of the data, a 200 whose JSON body is a
\* number (not a list), 429, another status, or an exception.
PageAnswers(offset, limit) ==
    { [kind |-> "ok", n |-> i] :
        i \in IF offset < total_records
              THEN 1 .. Min2(total_records - offset, limit + 1)
              ELSE {0} }
    \cup { [kind |-> k, n |-> 0] : k \in {"scalar", "s429", "fatal", "exc"} }

\* response.json() of a 200 whose body is a non-zero number: truthy, and
\* len() of it raises TypeError.  It is written as the one value that is no
\* list of records (records are offsets >= 0).
Scalar == << -1 >>
Sized(data) == data # Scalar

\* page(): the result dictionary for an answer
pageRetriesEveryFailure(offset, r) ==
    IF r.kind = "ok"
    THEN [offset |-> offset, data |-> PageData(offset, r.n), success |-> TRUE,
          error |-> "none"]
    ELSE IF r.kind = "scalar"
    THEN [offset |-> offset, data |-> Scalar, success |-> TRUE, error |-> "none"]
    ELSE [offset |-> offset, data |-> << >>, success |-> FALSE,
          error |-> "Rate limited"]
page(offset, r) ==
    CASE r.kind = "ok" ->
           [offset |-> offset, data |-> PageData(offset, r.n), success |-> TRUE,
            error |-> "none"]
      [] r.kind = "scalar" ->
           [offset |-> offset, data |-> Scalar, success |-> TRUE,
            error |-> "none"]
      [] r.kind = "s429" ->
           [offset |-> offset, data |-> << >>, success |-> FALSE,
            error |-> "Rate limited"]
      [] OTHER ->
           [offset |-> offset, data |-> << >>, success |-> FALSE,
            error |-> r.kind]

\* all_data[:-excess]
KeepOverrun(data, excess) == data
TrimTail(data, excess) ==
    IF excess <= Len(data) THEN SubSeq(data, 1, Len(data) - excess) ELSE << >>

\* The worker with the highest process_id is not bound by its end_offset.
BoundedEvery(w) == TRUE
Bounded(w) == w < num_processes

\* max_limit as set at the top of the loop
LimitUnclamped(w) == worker[w].max_limit
LimitAt(w) ==
    IF Bounded(w)
    THEN Min2(worker[w].max_limit, worker[w].end_offset - worker[w].current_offset)
    ELSE worker[w].max_limit

\* all_data_parallel: the windows [i*R, (i+1)*R) with process ids 1..N.  A
\* bounded worker with an empty window leaves its loop before any request.
WindowsInclusiveEnd(n, size) ==
    [w \in 1 .. n |->
        [pc |-> "run", start_offset |-> (w - 1) * size,
         end_offset |-> w * size + 1,
         current_offset |-> (w - 1) * size, max_limit |-> PagerLimit,
         retry_count |-> 0, all_data |-> << >>, why |-> "running"]]
Windows(n, size) ==
    [w \in 1 .. n |->
        IF w < n /\ size = 0
        THEN [pc |-> "done", start_offset |-> 0, end_offset |-> 0,
              current_offset |-> 0, max_limit |-> 0,
              retry_count |-> 0, all_data |-> << >>, why |-> "window_done"]
        ELSE [pc |-> "run", start_offset |-> (w - 1) * size,
              end_offset |-> w * size,
              current_offset |-> (w - 1) * size, max_limit |-> PagerLimit,
              retry_count |-> 0, all_data |-> << >>, why |-> "running"]]

PagerInit ==
    /\ GateIdle
    /\ PnlIdle
    /\ GraphIdle
    /\ ClvIdle
    /\ PriceIdle
    /\ DelayIdle
    /\ SplitIdle
    /\ RowsIdle
    /\ MetaIdle
    /\ num_processes \in 1 .. MaxProcesses
    /\ records_per_process \in 0 .. MaxPerProcess
    /\ total_records \in 0 .. (num_processes * records_per_process + ExtraRecords)
    /\ worker = Windows(num_processes, records_per_process)
    /\ all_data = << >>
    /\ page_failed = FALSE

\* fetch_range returns `data`: the process ends, of its locals only the
\* returned list and the reason of the return are kept.
ReturnedNothing(me, data, why) ==
    [me EXCEPT !.pc = "done", !.all_data = << >>, !.why = why,
               !.current_offset = me.start_offset,
               !.max_limit = 0, !.retry_count = 0]
Returned(me, data, why) ==
    [me EXCEPT !.pc = "done", !.all_data = data, !.why = why,
               !.current_offset = me.start_offset + Len(data),
               !.max_limit = 0, !.retry_count = 0]

\* retry_count = 0 at the top of the outer loop, before the requests of the
\* next offset
CarriedRetryCount(previous) == previous
NewOffsetRetryCount(previous) == 0

\* One request of fetch_range and what the worker does with its result, up
\* to the next request or to its return.
FetchRangePage(w, r) ==
    /\ w \in Workers
    /\ worker[w].pc = "run"
    /\ r \in PageAnswers(worker[w].current_offset, LimitAt(w))
    /\ LET me == worker[w]
           limit == LimitAt(w)
           result == page(me.current_offset, r)
           got == me.all_data \o result.data
           reached == me.current_offset + Len(result.data)
           over == Bounded(w) /\ reached > me.end_offset
           excess == reached - me.end_offset
           kept == IF over THEN TrimTail(got, excess) ELSE got
           offset == IF over THEN me.end_offset ELSE reached
           finished == Bounded(w) /\ offset >= me.end_offset
       IN  IF result.success /\ ~Sized(result.data)
           THEN \* len(result["data"]) raises: the exception leaves
                \* fetch_range and the future of the worker raises
                worker' = [worker EXCEPT ![w] = Returned(me, << >>, "raised")]
           ELSE IF result.success /\ result.data # << >>
           THEN worker' = [worker EXCEPT ![w] =
                    IF finished
                    THEN Returned(me, kept, IF over THEN "window_trimmed"
                                                    ELSE "window_done")
                    ELSE [me EXCEPT !.all_data = kept,
                                    !.current_offset = offset,
                                    !.max_limit = limit,
                                    !.retry_count =
                                       NewOffsetRetryCount(me.retry_count)]]
           ELSE IF ~result.success /\ result.error = "Rate limited"
           THEN worker' = [worker EXCEPT ![w] =
                    IF me.retry_count + 1 >= range_max_retries
                    THEN Returned(me, me.all_data, "retries_exhausted")
                    ELSE [me EXCEPT !.max_limit = limit,
                                    !.retry_count = me.retry_count + 1]]
           ELSE \* another failure, or a 200 with an empty list
                worker' = [worker EXCEPT ![w] =
                    Returned(me, me.all_data,
                             IF result.success THEN "end_of_data" ELSE "failed")]
    /\ page_failed' = (page_failed \/ r.kind # "ok")
    /\ UNCHANGED << num_processes, records_per_process, total_records, all_data >>
    /\ UNCHANGED nonPagerVars

\* future.result() raises when fetch_range raised
FutureRaised(w) == worker[w].why = "raised"

\* except Exception: pass -- what has been collected so far is kept
ExceptLosesCollected(collected) == << >>
ExceptPass(collected) == collected

\* as_completed hands over a finished worker: all_data.extend(process_data),
\* or the except branch when its future raises
MergeWorkerAssigns(w) ==
    /\ w \in Workers
    /\ worker[w].pc = "done"
    /\ all_data' = IF FutureRaised(w)
                   THEN ExceptPass(all_data)
                   ELSE worker[w].all_data
    /\ worker' = [worker EXCEPT ![w].pc = "merged"]
    /\ UNCHANGED << num_processes, records_per_process, total_records, page_failed >>
    /\ UNCHANGED nonPagerVars
MergeWorker(w) ==
    /\ w \in Workers
    /\ worker[w].pc = "done"
    /\ all_data' = IF FutureRaised(w)
                   THEN ExceptPass(all_data)
                   ELSE all_data \o worker[w].all_data
    /\ worker' = [worker EXCEPT ![w].pc = "merged"]
    /\ UNCHANGED << num_processes, records_per_process, total_records, page_failed >>
    /\ UNCHANGED nonPagerVars

PagerNext ==
    \/ \E w \in 1 .. MaxProcesses :
          \E r \in { [kind |-> k, n |-> i] :
                       k \in {"ok", "scalar", "s429", "fatal", "exc"},
                       i \in 0 .. (PagerLimit + 1) } :
             FetchRangePage(w, r)
    \/ \E w \in 1 .. MaxProcesses : MergeWorker(w)

PagerSpec == PagerInit /\ [][PagerNext]_vars

(***************************************************************************)
(* Claims about the offset pager                                           *)
(***************************************************************************)
AllMerged == \A w \in Workers : worker[w].pc = "merged"

RangeEnd == num_processes * records_per_process

\* The case C3 is about: every worker is merged, no page request failed and
\* the server holds at least the records of the range.
CleanRun ==
    /\ num_processes >= 1
    /\ AllMerged
    /\ ~page_failed
    /\ total_records >= RangeEnd

\* C3 as stated (boundary exactness): after a run without failed requests
\* against a server holding at least e = N * records_per_process records, the
\* merged records are exactly the offsets [0, e), each once.
C3_BoundaryExact ==
    CleanRun =>
        /\ Range(all_data) = 0 .. (RangeEnd - 1)
        /\ Len(all_data) = RangeEnd

\* C3 amended: the workers 1..N-1 return exactly their windows, the last
\* worker returns every record from its start offset to the end of the
\* server's data, so the merged records are exactly the offsets
\* [0, total_records), each once; this is [0, e) only when the server holds
\* exactly e records.
C3_ExactUpToServerEnd ==
    CleanRun =>
        /\ Range(all_data) = 0 .. (total_records - 1)
        /\ Len(all_data) = total_records
        /\ \A w \in Workers :
              worker[w].all_data =
                 IF Bounded(w)
                 THEN PageData(worker[w].start_offset, records_per_process)
                 ELSE PageData(worker[w].start_offset,
                               total_records - worker[w].start_offset)

\* C3 witness: a clean run of several workers against a server that holds
\* more than e records, in which the last worker was merged first.
C3_Witness ==
    /\ CleanRun
    /\ num_processes >= 2
    /\ total_records > RangeEnd
    /\ all_data[1] = worker[num_processes].start_offset

\* The worker ended at its boundary
AtBoundary(w) == worker[w].why \in {"window_done", "window_trimmed"}

\* excess > len(all_data): the branch of fetch_range that empties the
\* accumulator, for a page of n records asked at the worker's offset
EmptyingBranch(w, n) ==
    LET reached == worker[w].current_offset + n
        excess == reached - worker[w].end_offset
    IN  /\ reached > worker[w].end_offset
        /\ excess > Len(worker[w].all_data) + n

\* C18 (bounded-worker invariant of fetch_range): for a worker with
\* process_id < num_processes, after every processed page
\* start_offset <= current_offset <= end_offset and
\* len(all_data) = current_offset - start_offset, the records being those of
\* the offsets start_offset .. current_offset - 1 in order; a worker that
\* ended at its boundary, trimmed or not, holds exactly its window with the
\* offset at end_offset; while it runs, the limit it asks is at least 1 and
\* at most end_offset - current_offset, and no page the server can answer
\* takes the branch that empties the accumulator.
C18_BoundedWorker ==
    \A w \in Workers :
       Bounded(w) =>
          /\ worker[w].start_offset <= worker[w].current_offset
          /\ worker[w].current_offset <= worker[w].end_offset
          /\ Len(worker[w].all_data) =
                worker[w].current_offset - worker[w].start_offset
          /\ worker[w].all_data =
                PageData(worker[w].start_offset, Len(worker[w].all_data))
          /\ AtBoundary(w) => worker[w].current_offset = worker[w].end_offset
          /\ worker[w].pc = "run" =>
                /\ 1 <= LimitAt(w)
                /\ LimitAt(w) <= worker[w].end_offset - worker[w].current_offset
                /\ \A r \in PageAnswers(worker[w].current_offset, LimitAt(w)) :
                      ~EmptyingBranch(w, r.n)

\* C18 witness: a bounded worker took a first page of one record, then a
\* page that overshot its boundary, and returned its window of two records.
C18_Witness ==
    /\ num_processes = 2
    /\ records_per_process = 2
    /\ worker[1].why = "window_trimmed"
    /\ worker[1].all_data = PageData(0, 2)
    /\ worker[1].current_offset = worker[1].end_offset
    /\ worker[2].pc = "run"
    /\ worker[2].current_offset > worker[2].start_offset

\* Records the step added to the list of worker w
Added(w) == Len(worker'[w].all_data) - Len(worker[w].all_data)

\* The step is a request of worker w that was answered by a page of records
GotRecords(w) ==
    /\ worker[w].pc = "run"
    /\ worker'[w] # worker[w]
    /\ Added(w) > 0

\* C19 as stated (natural end of data): an unbounded worker stops after a
\* 200 response carrying fewer records than the limit it asked.
C19_StopsOnShortPage ==
    [][\A w \in Workers :
          (~Bounded(w) /\ GotRecords(w) /\ Added(w) < LimitAt(w))
             => worker'[w].pc = "done"]_vars

\* C19 amended: a worker that gets a 200 with an empty body stops and returns
\* the records it had, and a stopped worker makes no further request (its
\* list and offset never change again).  A page of records, short or not,
\* never stops an unbounded worker: it appends the records, advances the
\* offset by their number and asks again, so an unbounded worker stops only
\* on a request that brought no record.
C19_StopsOnEmptyPage ==
    [][\A w \in Workers :
          /\ (worker[w].pc = "run" /\ worker'[w].why = "end_of_data") =>
                /\ worker'[w].pc = "done"
                /\ worker'[w].all_data = worker[w].all_data
          /\ worker[w].pc # "run" =>
                /\ worker'[w].pc # "run"
                /\ worker'[w].all_data = worker[w].all_data
                /\ worker'[w].current_offset = worker[w].current_offset
          /\ (~Bounded(w) /\ GotRecords(w)) =>
                /\ worker'[w].pc = "run"
                /\ worker'[w].current_offset = worker[w].current_offset + Added(w)
                /\ worker'[w].all_data =
                      worker[w].all_data
                         \o PageData(worker[w].current_offset, Added(w))
          /\ (~Bounded(w) /\ worker[w].pc = "run" /\ worker'[w].pc = "done") =>
                /\ worker'[w].why \in {"end_of_data", "failed",
                                       "retries_exhausted", "raised"}
                /\ worker'[w].why # "raised" =>
                      worker'[w].all_data = worker[w].all_data]_vars

\* C19 witness: the only worker, unbounded, asked two records, got a page
\* of one although the server holds more, and is still running at offset 1.
C19_Witness ==
    /\ num_processes = 1
    /\ total_records = 3
    /\ worker[1].pc = "run"
    /\ worker[1].max_limit = PagerLimit
    /\ worker[1].all_data = PageData(0, 1)
    /\ worker[1].current_offset = 1

\* The step is a request of worker w
Requested(w) == worker[w].pc = "run" /\ worker'[w] # worker[w]

\* C20 (429 retry budget of the offset pager): retry_count counts the
\* consecutive 429 answers at the current offset and stays below 5 while the
\* worker runs.  A 429 that is not the fifth leaves the offset and the
\* records as they are, so the same request is repeated; the fifth in a row
\* ends the worker, which returns the records it had and does not raise; a
\* worker ends for exhausted retries in no other way; and a page of records
\* moves the worker to a new offset with the counter back at 0, whatever it
\* was.
C20_RetryBudget ==
    [][\A w \in Workers :
          /\ worker[w].pc = "run" => worker[w].retry_count \in 0 .. 4
          /\ (Requested(w) /\ worker'[w].pc = "run"
                 /\ worker'[w].retry_count # 0) =>
                /\ worker'[w].retry_count = worker[w].retry_count + 1
                /\ worker'[w].current_offset = worker[w].current_offset
                /\ worker'[w].all_data = worker[w].all_data
          /\ (Requested(w) /\ worker'[w].why = "retries_exhausted") =>
                /\ worker[w].retry_count = 4
                /\ worker'[w].pc = "done"
                /\ ~FutureRaised(w)'
                /\ worker'[w].all_data = worker[w].all_data
          /\ (Requested(w) /\ worker[w].retry_count = 4) =>
                \/ worker'[w].pc = "done"
                \/ worker'[w].current_offset > worker[w].current_offset
          /\ (Requested(w) /\ worker'[w].pc = "run"
                 /\ worker'[w].current_offset # worker[w].current_offset) =>
                worker'[w].retry_count = 0]_vars

\* C20 witness: a worker that had already collected a record got five 429
\* answers in a row at its next offset and returned the record it had.
C20_Witness ==
    \E w \in Workers :
       /\ worker[w].pc = "done"
       /\ worker[w].why = "retries_exhausted"
       /\ worker[w].all_data # << >>

\* The answers that are neither a 200 nor a 429: another status, or an
\* exception of the request or of the decoding of its body
NonRetryable == { [kind |-> k, n |-> 0] : k \in {"fatal", "exc"} }

\* The worker after a request that made it return what it had
StoppedWith(w, why) ==
    /\ worker'[w].pc = "done"
    /\ worker'[w].why = why
    /\ worker'[w].all_data = worker[w].all_data

\* C21 (non-retryable failure in the offset pager): a running worker whose
\* page request is answered by a status other than 200 and 429, or by an
\* exception, can only end there: it returns exactly the records it had, in
\* order, and does not raise; and a worker that has ended makes no request.
C21_FailureStops ==
    \A w \in Workers :
       /\ worker[w].pc = "run" =>
             \A r \in NonRetryable :
                /\ ENABLED FetchRangePage(w, r)
                /\ ~ ENABLED (FetchRangePage(w, r) /\ ~StoppedWith(w, "failed"))
       /\ worker[w].pc # "run" =>
             \A r \in PageAnswers(worker[w].current_offset, PagerLimit) :
                ~ ENABLED FetchRangePage(w, r)
       /\ worker[w].why = "failed" =>
             /\ worker[w].pc # "run"
             /\ worker[w].all_data =
                   PageData(worker[w].start_offset, Len(worker[w].all_data))

\* C21 witness: a worker that had collected a record got a failing answer
\* and returned that record.
C21_Witness ==
    \E w \in Workers :
       /\ worker[w].pc = "done"
       /\ worker[w].why = "failed"
       /\ worker[w].all_data # << >>

\* The offsets of the window of worker w
WindowOf(w) == worker[w].start_offset .. (worker[w].end_offset - 1)

\* C22 (window partition): the workers are exactly the ids 1..N, the window
\* of worker w is [(w-1)*R, w*R), so the windows have R offsets each, every
\* window starts where the one before ends, no two share an offset and
\* together they are [0, N*R); no step changes a window.
C22_WindowPartition ==
    /\ DOMAIN worker = 1 .. num_processes
    /\ \A w \in Workers :
          /\ worker[w].start_offset = (w - 1) * records_per_process
          /\ worker[w].end_offset = w * records_per_process
          /\ Cardinality(WindowOf(w)) = records_per_process
          /\ w > 1 => worker[w].start_offset = worker[w - 1].end_offset
    /\ \A v, w \in Workers : v # w => WindowOf(v) \cap WindowOf(w) = {}
    /\ UNION { WindowOf(w) : w \in Workers } = 0 .. (RangeEnd - 1)

\* C22 witness: two workers with windows of two offsets, both at work on
\* their windows.
C22_Witness ==
    /\ num_processes = 2
    /\ records_per_process = 2
    /\ WindowOf(1) = {0, 1}
    /\ WindowOf(2) = {2, 3}
    /\ worker[1].current_offset = 1
    /\ worker[2].current_offset = 3

\* The worker every test of end_offset leaves out
LastWorker == num_processes

\* The answers that bring a non-empty page to the request of worker w
RecordPages(w) ==
    { r \in PageAnswers(worker[w].current_offset, LimitAt(w)) :
        r.kind = "ok" /\ r.n > 0 }

\* C36 (the last worker is unbounded): the worker with process_id =
\* num_processes, the only worker when num_processes = 1, never ends at its
\* boundary: while it runs it asks the full page limit at whatever offset it
\* is, its end_offset included or passed, and a non-empty page can only be
\* kept whole with the worker going on; it ends only by an empty page, a
\* failure, exhausted retries or an exception.  What it returns are the
\* records from its start offset on, with no bound by its window, and the
\* merged list is bounded only by the windows of the other workers plus
\* what the last returned; every worker with a lower process_id returns at
\* most end_offset - start_offset records.
C36_LastWorkerUnbounded ==
    /\ \A w \in Workers :
          /\ w # LastWorker =>
                Len(worker[w].all_data) <= worker[w].end_offset - worker[w].start_offset
          /\ w = LastWorker =>
                /\ worker[w].why \in
                      {"running", "end_of_data", "failed", "retries_exhausted",
                       "raised"}
                /\ worker[w].all_data =
                      PageData(worker[w].start_offset, Len(worker[w].all_data))
                /\ worker[w].pc = "run" =>
                      /\ LimitAt(w) = PagerLimit
                      /\ worker[w].current_offset < total_records =>
                            RecordPages(w) # {}
                      /\ \A r \in RecordPages(w) :
                            /\ ENABLED FetchRangePage(w, r)
                            /\ ~ ENABLED
                                 (/\ FetchRangePage(w, r)
                                  /\ ~ /\ worker'[w].pc = "run"
                                       /\ worker'[w].current_offset =
                                             worker[w].current_offset + r.n
                                       /\ Len(worker'[w].all_data) =
                                             Len(worker[w].all_data) + r.n)
    /\ Len(all_data) <=
          (num_processes - 1) * records_per_process
             + Len(worker[LastWorker].all_data)

\* C36 witness: two workers with windows of two records against a server
\* holding five; the last worker returned three records, the one at its
\* end_offset among them, and the merged list has five records, more than
\* num_processes * records_per_process.
C36_Witness ==
    /\ AllMerged
    /\ num_processes = 2
    /\ records_per_process = 2
    /\ Len(worker[LastWorker].all_data) = 3
    /\ worker[LastWorker].end_offset \in Range(worker[LastWorker].all_data)
    /\ Len(worker[1].all_data) = 2
    /\ Len(all_data) = 5
    /\ Len(all_data) > RangeEnd

(***************************************************************************)
(* Batched PNL fetch and backfill: fetch_positions_from_rest,              *)
(* fetch_from_rest, _fetch_batch_pnl, fetch_missing                        *)
(* (src/striker_polymarket_api/subgraph_api/fetch_subgraph.py)             *)
(***************************************************************************)
\* Bounds of the model
NumIds == 3              \* unique condition ids asked
MaxRecsPerId == 5        \* records the server holds for an id that has any
MarketsPerRequest == 2   \* ids of one batch (markets_per_request)
BatchLimit == 1          \* page size of _fetch_batch_pnl (limit)
MissingLimit == 2        \* page size of fetch_missing
OffsetCap == 4           \* offset at which both loops stop paging
AttemptCeiling == 10     \* requests at one offset the model tells apart

\* Program constant: max_retries of _fetch_batch_pnl
batch_max_retries == 5

nonPnlVars == << gateVars, pagerVars, graphVars, clvVars, priceVars, delayVars,
    splitVars, rowVars, metaVars >>

RequestedIds == Range(unique_condition_ids)

\* The records the server holds for one id, each carrying its conditionId
RecordsOf(id) == [k \in 1 .. server_records[id] |-> << id, k >>]

ConditionIdsOf(records) == { records[i][1] : i \in DOMAIN records }

\* The list the server pages through for a bulk query of `ids`: the records
\* of the ids it does not leave out
RECURSIVE BulkList(_)
BulkList(ids) ==
    IF ids = << >> THEN << >>
    ELSE (IF Head(ids) \in bulk_omitted THEN << >> ELSE RecordsOf(Head(ids)))
         \o BulkList(Tail(ids))

PageOf(list, offset, limit) ==
    SubSeq(list, offset + 1, Min2(Len(list), offset + limit))

\* if offset >= 10000: break, of both paging loops
NeverAtOffsetCap(offset) == FALSE
AtOffsetCap(offset) == offset >= OffsetCap

\* fetch_from_rest: condition_ids[i:i + markets_per_request] for i = 0, mpr, ...
BatchesWithoutRemainder(ids, size) ==
    [b \in 1 .. (Len(ids) \div size) |->
        SubSeq(ids, (b - 1) * size + 1, b * size)]
Batches(ids, size) ==
    [b \in 1 .. ((Len(ids) + size - 1) \div size) |->
        SubSeq(ids, (b - 1) * size + 1, Min2(Len(ids), b * size))]

NewBatch(ids) ==
    [ids |-> ids, pc |-> "run", offset |-> 0, retry_count |-> 0,
     batch_data |-> << >>]

NewMiss(i) == [i |-> i, offset |-> 0, condition_data |-> << >>, requests |-> 0]

\* The ids in ascending order (list(set(...)))
RECURSIVE Sorted(_)
Sorted(S) ==
    IF S = {} THEN << >>
    ELSE LET x == CHOOSE y \in S : \A z \in S : y <= z
         IN  << x >> \o Sorted(S \ {x})

PnlInit ==
    /\ GateIdle
    /\ PagerIdle
    /\ GraphIdle
    /\ ClvIdle
    /\ PriceIdle
    /\ DelayIdle
    /\ SplitIdle
    /\ RowsIdle
    /\ MetaIdle
    /\ \E n \in 0 .. NumIds : unique_condition_ids = [i \in 1 .. n |-> i]
    /\ \E recs \in 1 .. MaxRecsPerId :
          server_records \in [RequestedIds -> {0, recs}]
    /\ bulk_omitted \in SUBSET { i \in RequestedIds : server_records[i] > 0 }
    /\ batch = [b \in DOMAIN Batches(unique_condition_ids, MarketsPerRequest) |->
                  NewBatch(Batches(unique_condition_ids, MarketsPerRequest)[b])]
    /\ all_pnl_data = << >>
    /\ rest_pc = "batches"
    /\ df_rest = << >>
    /\ missing_list = << >>
    /\ miss = NewMiss(0)
    /\ additional_data = << >>
    /\ single_failed = FALSE

BatchAnswers == {"ok", "notlist", "s429", "fatal", "other", "exc"}

\* _fetch_batch_pnl returns: the process ends, only the returned list is kept
BatchReturned(me, data) ==
    [me EXCEPT !.pc = "done", !.batch_data = data, !.offset = 0,
               !.retry_count = 0]

\* One request of _fetch_batch_pnl and what the loop does with its answer
BatchRequestKeepsCount(b, r) ==
    /\ rest_pc = "batches"
    /\ b \in DOMAIN batch
    /\ batch[b].pc = "run"
    /\ LET me == batch[b]
           data == PageOf(BulkList(me.ids), me.offset, BatchLimit)
           got == me.batch_data \o data
           failed_again ==
              IF me.retry_count + 1 >= batch_max_retries
              THEN BatchReturned(me, me.batch_data)
              ELSE [me EXCEPT !.retry_count = me.retry_count + 1]
       IN  batch' = [batch EXCEPT ![b] =
              CASE r = "ok" ->
                     IF data = << >> THEN BatchReturned(me, me.batch_data)
                     ELSE IF Len(data) < BatchLimit THEN BatchReturned(me, got)
                     ELSE IF AtOffsetCap(me.offset + BatchLimit)
                          THEN BatchReturned(me, got)
                     ELSE [me EXCEPT !.batch_data = got,
                                     !.offset = me.offset + BatchLimit]
                [] r = "notlist" -> BatchReturned(me, me.batch_data)
                [] r = "fatal" -> BatchReturned(me, me.batch_data)
                [] OTHER -> failed_again]
    /\ UNCHANGED << unique_condition_ids, server_records, bulk_omitted,
                    all_pnl_data, rest_pc, df_rest, missing_list, miss,
                    additional_data, single_failed >>
    /\ UNCHANGED nonPnlVars
BatchRequest(b, r) ==
    /\ rest_pc = "batches"
    /\ b \in DOMAIN batch
    /\ batch[b].pc = "run"
    /\ LET me == batch[b]
           data == PageOf(BulkList(me.ids), me.offset, BatchLimit)
           got == me.batch_data \o data
           failed_again ==
              IF me.retry_count + 1 >= batch_max_retries
              THEN BatchReturned(me, me.batch_data)
              ELSE [me EXCEPT !.retry_count = me.retry_count + 1]
       IN  batch' = [batch EXCEPT ![b] =
              CASE r = "ok" ->
                     IF data = << >> THEN BatchReturned(me, me.batch_data)
                     ELSE IF Len(data) < BatchLimit THEN BatchReturned(me, got)
                     ELSE IF AtOffsetCap(me.offset + BatchLimit)
                          THEN BatchReturned(me, got)
                     ELSE [me EXCEPT !.batch_data = got,
                                     !.offset = me.offset + BatchLimit,
                                     !.retry_count = 0]
                [] r = "notlist" -> BatchReturned(me, me.batch_data)
                [] r = "fatal" -> BatchReturned(me, me.batch_data)
                [] OTHER -> failed_again]
    /\ UNCHANGED << unique_condition_ids, server_records, bulk_omitted,
                    all_pnl_data, rest_pc, df_rest, missing_list, miss,
                    additional_data, single_failed >>
    /\ UNCHANGED nonPnlVars

\* as_completed of fetch_from_rest: all_pnl_data.extend(batch_data)
MergeBatch(b) ==
    /\ rest_pc = "batches"
    /\ b \in DOMAIN batch
    /\ batch[b].pc = "done"
    /\ all_pnl_data' = all_pnl_data \o batch[b].batch_data
    /\ batch' = [batch EXCEPT ![b].pc = "merged"]
    /\ UNCHANGED << unique_condition_ids, server_records, bulk_omitted, rest_pc,
                    df_rest, missing_list, miss, additional_data, single_failed >>
    /\ UNCHANGED nonPnlVars

\* The guard of the backfill in fetch_positions_from_rest
BackfillAlways(df) == TRUE
BackfillGuard(df) == df # << >>

\* found = set(df_rest['conditionId'].unique());
\* missing = set(unique_condition_ids) - found
MissingIdsAll(ids, df) == ids
MissingIds(ids, df) == ids \ ConditionIdsOf(df)

\* fetch_from_rest has returned df_rest: the ids without a record in it are
\* looked up one by one, when the guard lets the backfill run.
AfterBatches ==
    /\ rest_pc = "batches"
    /\ \A b \in DOMAIN batch : batch[b].pc = "merged"
    /\ df_rest' = all_pnl_data
    /\ LET missing == MissingIds(RequestedIds, df_rest')
       IN  IF BackfillGuard(df_rest') /\ missing # {}
           THEN /\ rest_pc' = "backfill"
                /\ missing_list' = Sorted(missing)
                /\ miss' = NewMiss(1)
           ELSE /\ rest_pc' = "market_data"
                /\ UNCHANGED << missing_list, miss >>
    /\ UNCHANGED << unique_condition_ids, server_records, bulk_omitted, batch,
                    all_pnl_data, additional_data, single_failed >>
    /\ UNCHANGED nonPnlVars

MissingAnswers == {"ok", "notlist", "s429", "other", "exc"}

\* One request of the while loop of fetch_missing for the current id and
\* what the loop does with its answer
MissingRequest(r) ==
    /\ rest_pc = "backfill"
    /\ LET id == missing_list[miss.i]
           data == PageOf(RecordsOf(id), miss.offset, MissingLimit)
           got == IF r = "ok" THEN miss.condition_data \o data
                  ELSE miss.condition_data
           again == r = "s429"
           more == /\ r = "ok"
                   /\ data # << >>
                   /\ Len(data) >= MissingLimit
                   /\ ~ AtOffsetCap(miss.offset + MissingLimit)
           found == additional_data \o got
       IN  IF again
           THEN \* time.sleep(2); continue
                /\ miss' = [miss EXCEPT !.requests =
                               Min2(miss.requests + 1, AttemptCeiling + 1)]
                /\ UNCHANGED << additional_data, df_rest, rest_pc >>
           ELSE IF more
           THEN /\ miss' = [miss EXCEPT !.condition_data = got,
                                        !.offset = miss.offset + MissingLimit,
                                        !.requests = 0]
                /\ UNCHANGED << additional_data, df_rest, rest_pc >>
           ELSE IF miss.i < Len(missing_list)
           THEN \* the loop of this id breaks, the next id follows
                /\ miss' = NewMiss(miss.i + 1)
                /\ additional_data' = found
                /\ UNCHANGED << df_rest, rest_pc >>
           ELSE \* last id: fetch_missing returns, its records are concatenated
                /\ miss' = NewMiss(0)
                /\ additional_data' = found
                /\ df_rest' = df_rest \o found
                /\ rest_pc' = "market_data"
    /\ single_failed' = (single_failed \/ r # "ok")
    /\ UNCHANGED << unique_condition_ids, server_records, bulk_omitted, batch,
                    all_pnl_data, missing_list >>
    /\ UNCHANGED nonPnlVars

\* return _fetch_market_data(df_rest): df['slug'] of a dataset without
\* columns raises; otherwise the rows are kept and the metadata joined to
\* them, unless a metadata request fails.
MarketData(ok) ==
    /\ rest_pc = "market_data"
    /\ rest_pc' = IF df_rest # << >> /\ ok THEN "returned" ELSE "raised"
    /\ UNCHANGED << unique_condition_ids, server_records, bulk_omitted, batch,
                    all_pnl_data, df_rest, missing_list, miss, additional_data,
                    single_failed >>
    /\ UNCHANGED nonPnlVars

PnlNext ==
    \/ \E b \in 1 .. NumIds : \E r \in BatchAnswers : BatchRequest(b, r)
    \/ \E b \in 1 .. NumIds : MergeBatch(b)
    \/ AfterBatches
    \/ \E r \in MissingAnswers : MissingRequest(r)
    \/ \E ok \in BOOLEAN : MarketData(ok)

PnlSpec == PnlInit /\ [][PnlNext]_vars

(***************************************************************************)
(* Claims on the batched PNL fetch and the backfill                        *)
(***************************************************************************)
BackfillOver == rest_pc \in {"market_data", "returned", "raised"}

HasRecords == { i \in RequestedIds : server_records[i] > 0 }

\* C6 as stated (backfill completeness): once the batched fetch and the
\* backfill are over and no single-id request has failed, the merged result
\* holds a record of every requested id the server has records for, whatever
\* the batched fetch returned (nothing at all included), and of no id the
\* server has no record for.
C6_BackfillComplete ==
    (BackfillOver /\ ~single_failed) => ConditionIdsOf(df_rest) = HasRecords

\* C7 as stated (every retry is bounded): none of the four fetchers makes
\* more than a bounded number of requests at one offset; the page call of
\* the gate stops after max_retries + 1, fetch_range and _fetch_batch_pnl
\* after 5, and fetch_missing within AttemptCeiling.
C7_RetriesBounded ==
    /\ \A m \in AllMarkets : th[m].requests <= max_retries + 1
    /\ \A w \in DOMAIN worker : worker[w].retry_count < range_max_retries
    /\ \A b \in DOMAIN batch : batch[b].retry_count < batch_max_retries
    /\ miss.requests <= AttemptCeiling

\* C16 as stated (empty result instead of an exception): when the batched
\* fetch and the backfill have yielded no record at all,
\* fetch_positions_from_rest does not raise: it returns the empty dataset.
C16_EmptyNotRaised ==
    (df_rest = << >> /\ rest_pc \notin {"idle", "batches", "backfill", "market_data"})
        => rest_pc = "returned"

\* `part` occurs in `whole` as one run of consecutive elements
IsSegment(part, whole) ==
    \E i \in 0 .. (Len(whole) - Len(part)) :
       \A k \in 1 .. Len(part) : whole[i + k] = part[k]

IsPrefix(part, whole) ==
    /\ Len(part) <= Len(whole)
    /\ \A k \in 1 .. Len(part) : whole[k] = part[k]

\* The workers, and the batches, whose returned list has been extended into
\* the merged list
MergedWorkers == { w \in Workers : worker[w].pc = "merged" /\ ~FutureRaised(w) }
MergedBatches == { b \in DOMAIN batch : batch[b].pc = "merged" }

RECURSIVE WorkerRecords(_)
WorkerRecords(ws) ==
    IF ws = {} THEN 0
    ELSE LET w == CHOOSE x \in ws : TRUE
         IN  Len(worker[w].all_data) + WorkerRecords(ws \ {w})

RECURSIVE BatchRecords(_)
BatchRecords(bs) ==
    IF bs = {} THEN 0
    ELSE LET b == CHOOSE x \in bs : TRUE
         IN  Len(batch[b].batch_data) + BatchRecords(bs \ {b})

BatchIsolationSeen ==
    /\ rest_pc # "batches"
    /\ \E b, c \in DOMAIN batch :
          /\ b # c
          /\ Len(batch[b].batch_data) < Len(BulkList(batch[b].ids))
          /\ batch[c].batch_data = BulkList(batch[c].ids)
          /\ batch[c].batch_data # << >>
          /\ IsSegment(batch[c].batch_data, all_pnl_data)

\* The workers the step hands over to the orchestrator
HandedOver == { w \in Workers : worker[w].pc = "done" /\ worker'[w].pc = "merged" }

\* What future.result() of a finished worker gives to extend
ResultOf(w) == IF FutureRaised(w) THEN << >> ELSE worker[w].all_data

\* No element occurs twice
Injective(s) == \A i, j \in DOMAIN s : s[i] = s[j] => i = j

\* C23 (merge of worker results): the list of all_data_parallel grows only
\* when a finished worker is handed over, one worker at a time, and then by
\* that worker's whole result appended at its end, so for every completion
\* order it is the concatenation of whole results in completion order; a
\* handed-over result stays as it was; after every step no record occurs
\* twice, the records are exactly those of the handed-over results and the
\* length is the sum of their lengths.
C23_MergeInCompletionOrder ==
    [][/\ Cardinality(HandedOver) <= 1
       /\ \A w \in HandedOver :
             /\ all_data' = all_data \o ResultOf(w)
             /\ worker'[w].all_data = worker[w].all_data
       /\ HandedOver = {} => all_data' = all_data
       /\ Injective(all_data')
       /\ Range(all_data') =
             UNION { Range(worker'[w].all_data) : w \in MergedWorkers' }
       /\ Len(all_data') = WorkerRecords(MergedWorkers)']_vars

\* C23 witness: the last worker completed first, the first worker returned
\* one record of its window of two after a failure, and the merged list is
\* the result of the last worker followed by that of the first.
C23_Witness ==
    /\ AllMerged
    /\ num_processes = 2
    /\ records_per_process = 2
    /\ worker[1].all_data = PageData(0, 1)
    /\ Len(worker[2].all_data) = 2
    /\ all_data = worker[2].all_data \o worker[1].all_data

\* The places (batch, index) at which an id is sent
PlacesOf(id) ==
    { bk \in (DOMAIN batch) \X (1 .. MarketsPerRequest) :
        bk[2] <= Len(batch[bk[1]].ids) /\ batch[bk[1]].ids[bk[2]] = id }

\* C29 (batch partition of condition ids): the n unique ids are split into
\* ceil(n / markets_per_request) batches that no step changes; every batch
\* has between 1 and markets_per_request ids and all but the last exactly
\* markets_per_request; every requested id is at exactly one place of one
\* batch, batch b holding the ids b-th in line, and the batches hold nothing
\* else; with n = 0 there is no batch and no record is ever collected.
C29_BatchPartition ==
    LET n == Len(unique_condition_ids)
        count == Len(batch)
    IN  rest_pc # "idle" =>
          /\ DOMAIN batch = 1 .. count
          /\ count * MarketsPerRequest >= n
          /\ count > 0 => (count - 1) * MarketsPerRequest < n
          /\ \A b \in DOMAIN batch :
                /\ Len(batch[b].ids) \in 1 .. MarketsPerRequest
                /\ b < count => Len(batch[b].ids) = MarketsPerRequest
                /\ \A k \in DOMAIN batch[b].ids :
                      batch[b].ids[k] =
                         unique_condition_ids[(b - 1) * MarketsPerRequest + k]
          /\ \A id \in RequestedIds : Cardinality(PlacesOf(id)) = 1
          /\ UNION { Range(batch[b].ids) : b \in DOMAIN batch } = RequestedIds
          /\ n = 0 => (batch = << >> /\ all_pnl_data = << >> /\ df_rest = << >>)

\* C29 witness: three ids were split into a batch of two and a batch of
\* one, and both batches have been fetched and merged.
C29_Witness ==
    /\ Len(unique_condition_ids) = 3
    /\ Len(batch) = 2
    /\ batch[1].ids = << 1, 2 >>
    /\ batch[2].ids = << 3 >>
    /\ rest_pc # "batches"
    /\ \A b \in DOMAIN batch : batch[b].pc = "merged"

\* The batch ends with its request: _fetch_batch_pnl returns the records it
\* had before it
BatchEnds(b) ==
    /\ batch'[b].pc = "done"
    /\ batch'[b].batch_data = batch[b].batch_data

\* The batch counts one more failure and will repeat the request at the
\* same offset
BatchRetries(b) ==
    batch'[b] = [batch[b] EXCEPT !.retry_count = @ + 1]

\* C30 (retry policy of _fetch_batch_pnl): while a batch runs its failure
\* counter is between 0 and 4.  A request answered by a status of
\* {400, 401, 403, 404} can only end the batch; one answered by 429, by
\* another non-200 status or by an exception can only end it when it is the
\* fifth failure counted, and otherwise only count one more failure and
\* leave offset and records as they are; one answered by 200 either ends
\* the batch or, after a full page, moves on by limit with the page kept
\* and the counter at 0.  A batch that ends returns its records: it has
\* no raised state.
C30_BatchRetryPolicy ==
    \A b \in DOMAIN batch :
       /\ batch[b].pc \in {"run", "done", "merged"}
       /\ (rest_pc = "batches" /\ batch[b].pc = "run") =>
             /\ batch[b].retry_count \in 0 .. 4
             /\ ENABLED BatchRequest(b, "fatal")
             /\ ~ ENABLED (BatchRequest(b, "fatal") /\ ~ BatchEnds(b))
             /\ \A r \in {"s429", "other", "exc"} :
                   /\ ENABLED BatchRequest(b, r)
                   /\ ~ ENABLED
                        (BatchRequest(b, r) /\
                           ~ (IF batch[b].retry_count = 4
                              THEN BatchEnds(b)
                              ELSE BatchRetries(b)))
             /\ ENABLED BatchRequest(b, "ok")
             /\ ~ ENABLED
                  (BatchRequest(b, "ok") /\
                     ~ \/ batch'[b].pc = "done"
                       \/ /\ batch'[b].pc = "run"
                          /\ batch'[b].retry_count = 0
                          /\ batch'[b].offset = batch[b].offset + BatchLimit
                          /\ Len(batch'[b].batch_data) =
                                Len(batch[b].batch_data) + BatchLimit
                          /\ IsPrefix(batch[b].batch_data, batch'[b].batch_data))

\* C30 witness: a batch that has kept a full page is at its next offset
\* with four failures counted since that page.
C30_Witness ==
    \E b \in DOMAIN batch :
       /\ rest_pc = "batches"
       /\ batch[b].pc = "run"
       /\ batch[b].offset = BatchLimit
       /\ batch[b].batch_data # << >>
       /\ batch[b].retry_count = 4

\* The offsets below the cap at which a loop of page size `limit` asks
OffsetsBelowCap(limit) == { k * limit : k \in 0 .. ((OffsetCap - 1) \div limit) }

\* Most pages a loop of page size `limit` keeps: one for each such offset
PagesCap(limit) == Cardinality(OffsetsBelowCap(limit))

\* The records of one id among those the backfill found
RecoveredOf(id, records) == { i \in DOMAIN records : records[i][1] = id }

\* The batch is still paging after the step
BatchGoesOn(b) == batch'[b].pc = "run"

\* The batch steps to its next page: by limit, with a full page kept
BatchAdvances(b) ==
    /\ batch'[b].offset = batch[b].offset + BatchLimit
    /\ Len(batch'[b].batch_data) = Len(batch[b].batch_data) + BatchLimit

\* fetch_missing is still paging the same id after the step
MissGoesOn == rest_pc' = "backfill" /\ miss'.i = miss.i

MissAdvances ==
    /\ miss'.offset = miss.offset + MissingLimit
    /\ Len(miss'.condition_data) = Len(miss.condition_data) + MissingLimit

\* C31 (offset cap): a request of _fetch_batch_pnl or fetch_missing is
\* always at an offset below the cap that is a multiple of the page size,
\* with exactly one full page kept for each offset passed; a request that
\* leaves the loop running either leaves offset and records as they are (a
\* retry) or, answered by 200, moves on by the page size with a full page
\* added, and a 200 answer never leaves the loop at the same offset; so a
\* batch or an id keeps at most one page per offset below the cap, hence at
\* most PagesCap * limit records, which is the cap itself when the page size
\* divides it (10,000 = 400 * 25 = 20 * 500).
C31_OffsetCap ==
    /\ \A b \in DOMAIN batch :
          /\ Len(batch[b].batch_data) <= PagesCap(BatchLimit) * BatchLimit
          /\ OffsetCap % BatchLimit = 0 => Len(batch[b].batch_data) <= OffsetCap
          /\ (rest_pc = "batches" /\ batch[b].pc = "run") =>
                /\ batch[b].offset \in OffsetsBelowCap(BatchLimit)
                /\ batch[b].offset < OffsetCap
                /\ Len(batch[b].batch_data) = batch[b].offset
                /\ \A r \in BatchAnswers \ {"ok"} :
                      ~ ENABLED (/\ BatchRequest(b, r)
                                 /\ BatchGoesOn(b)
                                 /\ \/ batch'[b].offset # batch[b].offset
                                    \/ batch'[b].batch_data # batch[b].batch_data)
                /\ ~ ENABLED (/\ BatchRequest(b, "ok")
                              /\ BatchGoesOn(b)
                              /\ ~ BatchAdvances(b))
    /\ rest_pc = "backfill" =>
          /\ miss.offset \in OffsetsBelowCap(MissingLimit)
          /\ miss.offset < OffsetCap
          /\ Len(miss.condition_data) = miss.offset
          /\ \A r \in MissingAnswers \ {"ok"} :
                ~ ENABLED (/\ MissingRequest(r)
                           /\ MissGoesOn
                           /\ \/ miss'.offset # miss.offset
                              \/ miss'.condition_data # miss.condition_data)
          /\ ~ ENABLED (MissingRequest("ok") /\ MissGoesOn /\ ~ MissAdvances)
    /\ \A id \in RequestedIds :
          /\ Cardinality(RecoveredOf(id, additional_data))
                <= PagesCap(MissingLimit) * MissingLimit
          /\ OffsetCap % MissingLimit = 0 =>
                Cardinality(RecoveredOf(id, additional_data)) <= OffsetCap

\* C31 witness: a batch whose ids have more records than the cap returned
\* exactly OffsetCap of them, and the backfill kept exactly OffsetCap
\* records of an id for which the server holds more.
C31_Witness ==
    /\ rest_pc \in {"market_data", "returned", "raised"}
    /\ \E b \in DOMAIN batch :
          /\ Len(BulkList(batch[b].ids)) > OffsetCap
          /\ Len(batch[b].batch_data) = OffsetCap
    /\ \E id \in RequestedIds :
          /\ server_records[id] > OffsetCap
          /\ Cardinality(RecoveredOf(id, additional_data)) = OffsetCap

\* The id fetch_missing is paging
QueriedId == missing_list[miss.i]

\* After a request fetch_missing is at the same id, at the start of the next
\* id in line, or has returned after the last one
NextInLine ==
    \/ rest_pc' = "backfill" /\ miss'.i = miss.i
    \/ rest_pc' = "backfill" /\ miss'.i = miss.i + 1 /\ miss'.offset = 0
    \/ rest_pc' = "market_data" /\ miss.i = Len(missing_list)

\* C32 (backfill target set): while the backfill runs the batch results are
\* not empty and untouched, the ids in line are exactly the requested ids
\* without a record in the batch results, each once; the id being paged is
\* one of them, every request can only stay at it, go to the start of the
\* next in line or return after the last, and what is collected are records
\* of the id being paged and of those before it.  Once the backfill is
\* over the result is the batch results followed by the recovered records,
\* which are of ids in line only and of no id of the batch results.
C32_BackfillTargets ==
    /\ rest_pc = "backfill" =>
          /\ df_rest = all_pnl_data
          /\ all_pnl_data # << >>
          /\ Range(missing_list) = RequestedIds \ ConditionIdsOf(all_pnl_data)
          /\ Injective(missing_list)
          /\ miss.i \in DOMAIN missing_list
          /\ QueriedId \notin ConditionIdsOf(all_pnl_data)
          /\ ConditionIdsOf(miss.condition_data) \subseteq {QueriedId}
          /\ ConditionIdsOf(additional_data) \subseteq
                { missing_list[j] : j \in 1 .. (miss.i - 1) }
          /\ \A r \in MissingAnswers :
                /\ ENABLED MissingRequest(r)
                /\ ~ ENABLED (MissingRequest(r) /\ ~ NextInLine)
    /\ BackfillOver =>
          /\ df_rest = all_pnl_data \o additional_data
          /\ IsPrefix(all_pnl_data, df_rest)
          /\ ConditionIdsOf(additional_data) \subseteq Range(missing_list)
          /\ ConditionIdsOf(additional_data) \cap ConditionIdsOf(all_pnl_data) = {}
          /\ Range(missing_list) \cap ConditionIdsOf(all_pnl_data) = {}

\* C32 witness: of three requested ids the batch results hold one; the other
\* two were paged one by one and their records follow the batch results.
C32_Witness ==
    /\ BackfillOver
    /\ Len(unique_condition_ids) = 3
    /\ Cardinality(ConditionIdsOf(all_pnl_data)) = 1
    /\ Len(missing_list) = 2
    /\ ConditionIdsOf(additional_data) = Range(missing_list)
    /\ df_rest = all_pnl_data \o additional_data

(***************************************************************************)
(* Graph pager: query_graphql, get_user_positions, get_all_user_positions  *)
(* (src/striker_polymarket_api/subgraph_api/fetch_subgraph.py)             *)
(***************************************************************************)
\* Bounds of the model
MaxBatchSize == 2        \* largest batch_size tried
SubgraphHeld == 5        \* most balances the subgraph holds for the user

nonGraphVars == << gateVars, pagerVars, pnlVars, clvVars, priceVars, delayVars,
    splitVars, rowVars, metaVars >>

GraphInit ==
    /\ GateIdle
    /\ PagerIdle
    /\ PnlIdle
    /\ ClvIdle
    /\ PriceIdle
    /\ DelayIdle
    /\ SplitIdle
    /\ RowsIdle
    /\ MetaIdle
    /\ batch_size \in 1 .. MaxBatchSize
    /\ subgraph_total \in 0 .. SubgraphHeld
    /\ skip = 0
    /\ all_positions = << >>
    /\ graph_pc = "loop"
    /\ graph_log = << >>
    /\ graph_returned = << >>

\* What requests.post / raise_for_status / response.json() can do with the
\* query (first, skip). The subgraph answers with the balances skip+1 ..
\* skip+first of the user. A body that is not JSON makes response.json()
\* raise an error that is a RequestException in some versions of requests
\* and a plain ValueError in others.
GraphAnswers(first, at) ==
    { [kind |-> "data", n |-> Min2(first, subgraph_total - Min2(at, subgraph_total))] }
    \cup { [kind |-> k, n |-> 0] :
             k \in {"transport", "http_status", "graphql_error",
                    "bad_json_caught", "bad_json_raised"} }

\* query_graphql: the dict it returns (its keys and the number of
\* userBalances under "data"), or the exception that leaves it
query_graphql(r) ==
    CASE r.kind \in {"transport", "http_status", "bad_json_caught"} ->
           [raised |-> FALSE, keys |-> {"error"}, userBalances |-> 0]
      [] r.kind = "bad_json_raised" ->
           [raised |-> TRUE, keys |-> {}, userBalances |-> 0]
      [] r.kind = "graphql_error" ->
           [raised |-> FALSE, keys |-> {"errors"}, userBalances |-> 0]
      [] OTHER ->
           [raised |-> FALSE, keys |-> {"data"}, userBalances |-> r.n]

\* get_user_positions on a result that has the key "error"
ErrorRaised(result) == [raised |-> TRUE, page |-> << >>]
ErrorPage(result) == [raised |-> FALSE, page |-> << >>]

\* get_user_positions: the transformed page, every record named by the
\* skip of its request and its place in the page
get_user_positions(at, result) ==
    IF result.raised THEN [raised |-> TRUE, page |-> << >>]
    ELSE IF "error" \in result.keys THEN ErrorPage(result)
    ELSE IF "data" \in result.keys
    THEN [raised |-> FALSE,
          page |-> [i \in 1 .. result.userBalances |-> << at, i >>]]
    ELSE [raised |-> FALSE, page |-> << >>]

\* The test that ends the loop after a page has been appended
NeverLast(got, size) == FALSE
IsLastPage(got, size) == Len(got) < size

\* One iteration of the while loop of get_all_user_positions
PositionsPage(r) ==
    /\ graph_pc = "loop"
    /\ r \in GraphAnswers(batch_size, skip)
    /\ LET got == get_user_positions(skip, query_graphql(r))
       IN  /\ graph_log' = Append(graph_log,
                              [skip |-> skip, kind |-> r.kind, n |-> Len(got.page)])
           /\ IF got.raised
              THEN /\ graph_pc' = "raised"
                   /\ UNCHANGED << skip, all_positions >>
              ELSE IF got.page = << >>
              THEN /\ graph_pc' = "print"
                   /\ UNCHANGED << skip, all_positions >>
              ELSE /\ all_positions' = all_positions \o got.page
                   /\ IF IsLastPage(got.page, batch_size)
                      THEN /\ graph_pc' = "print"
                           /\ UNCHANGED skip
                      ELSE /\ skip' = skip + batch_size
                           /\ UNCHANGED graph_pc
    /\ UNCHANGED << batch_size, subgraph_total, graph_returned >>
    /\ UNCHANGED nonGraphVars

\* print(...); return all_positions
ReturnPositions ==
    /\ graph_pc = "print"
    /\ graph_pc' = "returned"
    /\ graph_returned' = all_positions
    /\ UNCHANGED << batch_size, subgraph_total, skip, all_positions, graph_log >>
    /\ UNCHANGED nonGraphVars

GraphNext ==
    \/ \E k \in {"data", "transport", "http_status", "graphql_error",
                 "bad_json_caught", "bad_json_raised"} :
          \E n \in 0 .. MaxBatchSize : PositionsPage([kind |-> k, n |-> n])
    \/ ReturnPositions

GraphSpec == GraphInit /\ [][GraphNext]_vars

(***************************************************************************)
(* Claims on the graph pager                                               *)
(***************************************************************************)
\* The pages of a request log, concatenated in request order
RECURSIVE PagesOf(_)
PagesOf(log) ==
    IF log = << >> THEN << >>
    ELSE [i \in 1 .. Head(log).n |-> << Head(log).skip, i >>] \o PagesOf(Tail(log))

\* C8 (cursor pagination): the pages are requested with skip = 0, P, 2P, ...
\* in that order; every page before the last requested one held exactly P
\* records, so nothing is requested after a page with fewer than P records
\* (an empty one included); the collected and the returned list are the
\* concatenation of the pages in request order; and while the loop runs,
\* after k full pages, skip = k*P = number of records collected.
C8_CursorPagination ==
    /\ \A j \in DOMAIN graph_log : graph_log[j].skip = (j - 1) * batch_size
    /\ \A j \in DOMAIN graph_log :
          graph_log[j].n < batch_size => (j = Len(graph_log) /\ graph_pc # "loop")
    /\ all_positions = PagesOf(graph_log)
    /\ graph_pc = "loop" =>
          (skip = Len(graph_log) * batch_size /\ skip = Len(all_positions))
    /\ graph_pc = "returned" => graph_returned = PagesOf(graph_log)

C8_Witness ==
    /\ graph_pc = "returned"
    /\ batch_size >= 2
    /\ Len(graph_log) >= 3
    /\ graph_log[Len(graph_log)].kind = "data"
    /\ graph_log[Len(graph_log)].n \in 1 .. batch_size - 1
    /\ Len(graph_returned) = subgraph_total

PageErrors == {"transport", "http_status", "graphql_error"}

\* C9 (errors end the pagination silently): a page request answered with a
\* transport error, an HTTP error status or a GraphQL error is the last
\* request (no retry, no further page), get_all_user_positions does not
\* raise, and what it holds and returns is just the list of the records of
\* the pages before the failing one.
C9_ErrorEndsSilently ==
    \A j \in DOMAIN graph_log :
        graph_log[j].kind \in PageErrors =>
            /\ j = Len(graph_log)
            /\ graph_log[j].n = 0
            /\ graph_pc \in {"print", "returned"}
            /\ all_positions = PagesOf(SubSeq(graph_log, 1, j - 1))
            /\ graph_pc = "returned" => graph_returned = all_positions

C9_Witness ==
    /\ graph_pc = "returned"
    /\ Len(graph_log) >= 2
    /\ graph_log[Len(graph_log)].kind \in PageErrors
    /\ graph_returned # << >>
    /\ Len(graph_returned) < subgraph_total

(***************************************************************************)
(* CLV aggregator: calculate_clv (src/striker_polymarket_api/rest.py)      *)
(***************************************************************************)
\* Bounds of the model
MaxPositions == 2        \* rows of the positions dataset
NumAssets == 2           \* token ids held as positions
MaxTime == 1             \* latest second on the clock
MaxTrades == 2           \* rows of the trades dataset
MaxSize == 1             \* largest trade size
MaxPrice == 2            \* largest price (scaled integer)

MaxMessage == 51         \* longest exception message

\* Program constant: milliseconds per second (timestamp // 1000)
MsPerSecond == 1000

\* Program constant: characters of the exception message kept (str(e)[:50])
MessageKept == 50

nonClvVars == << gateVars, pagerVars, pnlVars, graphVars, priceVars, delayVars,
    splitVars, rowVars, metaVars >>

\* An undefined value (None / NaN); a defined value v is written << v >>
NaN == << >>

HelperColumns == {"start_time_unix", "_composite_key"}

\* Every token belongs to one market, two tokens to a market
ConditionOf(asset) == (asset + 1) \div 2

create_key(conditionId, asset) == << conditionId, asset >>

PositionRows ==
    [asset : 1 .. NumAssets, start_time : 0 .. MaxTime]

\* A trade of a token held as a position or of another token, stamped in
\* milliseconds at the last millisecond of a second
TradeRows ==
    [asset : 1 .. NumAssets + 1,
     timestamp : { t * MsPerSecond + (MsPerSecond - 1) : t \in 0 .. MaxTime },
     size : 0 .. MaxSize,
     price : 1 .. MaxPrice]

\* The sums and the groups of the loop do not depend on the order of the
\* rows of trades_df: one order stands for all of them.
TradeRank(tr) ==
    ((tr.asset * (MaxTime + 1) + tr.timestamp \div MsPerSecond) * (MaxSize + 1)
        + tr.size) * (MaxPrice + 1) + tr.price

InRankOrder(t) ==
    \A i \in DOMAIN t : \A j \in DOMAIN t : i < j => TradeRank(t[i]) <= TradeRank(t[j])

\* The token ids of the positions are numbered as they first appear
FirstSeenOrder(p) ==
    \A i \in DOMAIN p :
        \/ p[i].asset = 1
        \/ \E j \in 1 .. i - 1 : p[j].asset = p[i].asset - 1

\* What fetch_clv can return: no rows, rows with usable timestamps, rows
\* without a timestamp column, rows whose timestamp is not a number
TradeResults ==
    { [kind |-> k, rows |-> << >>] : k \in {"empty", "no_timestamp", "bad_timestamp"} }
    \cup { [kind |-> "ok", rows |-> t] :
             t \in { u \in UNION { [1 .. n -> TradeRows] : n \in 1 .. MaxTrades } :
                        InRankOrder(u) } }

ClvInit ==
    /\ GateIdle
    /\ PagerIdle
    /\ PnlIdle
    /\ GraphIdle
    /\ PriceIdle
    /\ DelayIdle
    /\ SplitIdle
    /\ RowsIdle
    /\ MetaIdle
    /\ clv_pc = "process_dataframe"
    /\ positions \in UNION { [1 .. n -> PositionRows] : n \in 1 .. MaxPositions }
    /\ FirstSeenOrder(positions)
    /\ clv_df = NoDataset
    /\ trades_df = NoTrades
    /\ groups = << >>
    /\ clv_results = << >>
    /\ clv_reasons = << >>
    /\ clv_returned = NoDataset

\* clv_df = process_dataframe(df); clv_df['_composite_key'] = create_key(clv_df):
\* every row keeps its place and gets a match_start_price, defined or not
ProcessDataframe(prices) ==
    /\ clv_pc = "process_dataframe"
    /\ prices \in [DOMAIN positions -> {NaN} \cup { << v >> : v \in 1 .. MaxPrice }]
    /\ clv_df' = [rows |-> Len(positions),
                  columns |-> {"conditionId", "asset", "start_time",
                               "match_start_price", "_composite_key"},
                  match_start_price |-> prices,
                  price_clv |-> << >>]
    /\ clv_pc' = "start_time"
    /\ UNCHANGED << positions, trades_df, groups, clv_results, clv_reasons,
                    clv_returned >>
    /\ UNCHANGED nonClvVars

\* The try block that converts start_time to start_time_unix; when the
\* conversion raises, clv_df is returned as it is
ConvertStartTime(ok) ==
    /\ clv_pc = "start_time"
    /\ IF ok
       THEN /\ clv_df' = [clv_df EXCEPT !.columns = @ \cup {"start_time_unix"}]
            /\ clv_pc' = "fetch_clv"
            /\ UNCHANGED clv_returned
       ELSE /\ clv_returned' = clv_df
            /\ clv_pc' = "returned"
            /\ UNCHANGED clv_df
    /\ UNCHANGED << positions, trades_df, groups, clv_results, clv_reasons >>
    /\ UNCHANGED nonClvVars

\* clv_df.drop(columns=['start_time_unix', '_composite_key'], errors='ignore')
DropHelpers(d) == [d EXCEPT !.columns = @ \ HelperColumns]

\* trades_df = fetch_clv.fetch_clv(...) and the test trades_df.empty
FetchClv(t) ==
    /\ clv_pc = "fetch_clv"
    /\ t \in TradeResults
    /\ trades_df' = t
    /\ IF t.kind = "empty"
       THEN /\ clv_df' = DropHelpers(clv_df)
            /\ clv_returned' = clv_df'
            /\ clv_pc' = "returned"
       ELSE /\ clv_pc' = "timestamp"
            /\ UNCHANGED << clv_df, clv_returned >>
    /\ UNCHANGED << positions, groups, clv_results, clv_reasons >>
    /\ UNCHANGED nonClvVars

\* The groups of trades_df.groupby(['conditionId', 'asset']), in key order
GroupsOf(rows) == Sorted({ rows[i].asset : i \in DOMAIN rows })

\* The try block that adds timestamp_seconds, and its two except branches
ConvertTimestamps ==
    /\ clv_pc = "timestamp"
    /\ IF trades_df.kind = "ok"
       THEN /\ groups' = GroupsOf(trades_df.rows)
            /\ clv_pc' = "loop"
            /\ UNCHANGED << clv_df, clv_returned >>
       ELSE /\ clv_df' = DropHelpers(clv_df)
            /\ clv_returned' = clv_df'
            /\ clv_pc' = "returned"
            /\ UNCHANGED groups
    /\ UNCHANGED << positions, trades_df, clv_results, clv_reasons >>
    /\ UNCHANGED nonClvVars

timestamp_seconds(trade) == trade.timestamp \div MsPerSecond

\* df_lookup.loc[(condition_id, asset)], the first row when there are several
LookupRow(asset) ==
    CHOOSE i \in DOMAIN positions :
        /\ positions[i].asset = asset
        /\ \A j \in 1 .. i - 1 : positions[j].asset # asset

\* The filter with the trades of the start second let in
FilteredDfInclusive(asset, start_time) ==
    SelectSeq(trades_df.rows,
              LAMBDA tr : tr.asset = asset /\ timestamp_seconds(tr) <= start_time)

\* group_df[group_df['timestamp_seconds'] < start_time]
FilteredDf(asset, start_time) ==
    SelectSeq(trades_df.rows,
              LAMBDA tr : tr.asset = asset /\ timestamp_seconds(tr) < start_time)

\* (filtered_df['size'] * filtered_df['price']).sum() / total_size, kept as
\* the exact fraction num / den
avg_price(filtered_df) ==
    [num |-> SumSeq([i \in DOMAIN filtered_df |->
                       filtered_df[i].size * filtered_df[i].price]),
     den |-> SumSeq([i \in DOMAIN filtered_df |-> filtered_df[i].size])]

\* closing_price - avg_price, as a fraction over the same denominator
price_clv(closing_price, avg) ==
    [num |-> closing_price * avg.den - avg.num, den |-> avg.den]

\* The exception messages told apart: str(e) as a list of characters
Message(n) == [i \in 1 .. n |-> "x"]

Messages == { Message(n) : n \in {0, MessageKept, MaxMessage} }

\* f'erro_processamento: {str(e)[:50]}'
ErrorReason(message) ==
    << "erro_processamento: " >> \o
        SubSeq(message, 1, Min2(Len(message), MessageKept))

\* The order of the tests of the loop body for a position key: the closing
\* price first, then the filter and the sums over the trades of the group,
\* which are what can raise
OutcomeFilterFirst(raises, closing_price, total_size) ==
    IF raises THEN "raised"
    ELSE IF total_size = 0 THEN "sem_trades_pre_market"
    ELSE IF closing_price = NaN THEN "closing_price_is_nan"
    ELSE "result"
Outcome(raises, closing_price, total_size) ==
    IF closing_price = NaN THEN "closing_price_is_nan"
    ELSE IF raises THEN "raised"
    ELSE IF total_size = 0 THEN "sem_trades_pre_market"
    ELSE "result"

\* except Exception as e: the reason is recorded and the loop goes on
ExceptRecordsAlone(composite_key, message) ==
    (composite_key :> ErrorReason(message))
ExceptRecords(composite_key, message) ==
    (composite_key :> ErrorReason(message)) @@ clv_reasons

\* One iteration of the loop over the trade groups. raises: an exception
\* with the given message is raised by the filter or the sums over the
\* trades of the group of a position key.
ProcessGroup(raises, message) ==
    /\ clv_pc = "loop"
    /\ groups # << >>
    /\ LET asset == Head(groups)
           composite_key == create_key(ConditionOf(asset), asset)
           known == \E i \in DOMAIN positions : positions[i].asset = asset
           row == LookupRow(asset)
           closing_price == clv_df.match_start_price[row]
           filtered_df == FilteredDf(asset, positions[row].start_time)
           total_size == SumSeq([i \in DOMAIN filtered_df |-> filtered_df[i].size])
           outcome == Outcome(raises, closing_price, total_size)
       IN  /\ raises => (known /\ closing_price # NaN)
           /\ ~raises => message = << >>
           /\ IF ~known
              THEN UNCHANGED << clv_results, clv_reasons >>
              ELSE IF outcome = "raised"
              THEN /\ clv_reasons' = ExceptRecords(composite_key, message)
                   /\ UNCHANGED clv_results
              ELSE IF outcome = "result"
              THEN /\ clv_results' =
                         (composite_key :>
                             [price_clv |-> price_clv(closing_price[1],
                                                      avg_price(filtered_df)),
                              avg_price |-> avg_price(filtered_df),
                              closing_price |-> closing_price[1]]) @@ clv_results
                   /\ UNCHANGED clv_reasons
              ELSE /\ clv_reasons' = (composite_key :> << outcome >>) @@ clv_reasons
                   /\ UNCHANGED clv_results
    /\ groups' = Tail(groups)
    /\ UNCHANGED << clv_pc, positions, clv_df, trades_df, clv_returned >>
    /\ UNCHANGED nonClvVars

\* After the loop: price_clv and odds_clv are mapped from the results onto
\* the rows by composite key, the helper columns dropped, clv_df returned
MapResults ==
    /\ clv_pc = "loop"
    /\ groups = << >>
    /\ clv_df' = [clv_df EXCEPT
          !.price_clv = [i \in DOMAIN positions |->
              LET k == create_key(ConditionOf(positions[i].asset), positions[i].asset)
              IN  IF k \in DOMAIN clv_results
                  THEN << clv_results[k].price_clv >> ELSE NaN],
          !.columns = (@ \cup {"price_clv", "odds_clv"}) \ HelperColumns]
    /\ clv_returned' = clv_df'
    /\ clv_pc' = "returned"
    /\ UNCHANGED << positions, trades_df, groups, clv_results, clv_reasons >>
    /\ UNCHANGED nonClvVars

ClvNext ==
    \/ \E prices \in [1 .. MaxPositions -> {NaN} \cup { << v >> : v \in 1 .. MaxPrice }] :
          \E n \in 1 .. MaxPositions :
             ProcessDataframe([i \in 1 .. n |-> prices[i]])
    \/ \E ok \in BOOLEAN : ConvertStartTime(ok)
    \/ \E t \in TradeResults : FetchClv(t)
    \/ ConvertTimestamps
    \/ \E raises \in BOOLEAN : \E message \in Messages : ProcessGroup(raises, message)
    \/ MapResults

ClvSpec == ClvInit /\ [][ClvNext]_vars

(***************************************************************************)
(* Claims on the CLV aggregator                                            *)
(***************************************************************************)
\* C10 as stated (every return path): whatever path calculate_clv returns
\* by, the returned dataset has one row per input position, has the columns
\* price_clv and odds_clv, and has neither start_time_unix nor
\* _composite_key.
C10_EveryReturnPath ==
    clv_pc = "returned" =>
        /\ clv_returned.rows = Len(positions)
        /\ {"price_clv", "odds_clv"} \subseteq clv_returned.columns
        /\ clv_returned.columns \cap HelperColumns = {}

PositionAssets == { positions[i].asset : i \in DOMAIN positions }

KeyOf(asset) == create_key(ConditionOf(asset), asset)

\* The loop over the trade groups has visited every group
LoopOver ==
    \/ clv_pc = "loop" /\ groups = << >>
    \/ clv_pc = "returned" /\ "price_clv" \in clv_returned.columns

ClosingDefined(asset) == clv_df.match_start_price[LookupRow(asset)] # NaN

Raised(asset) ==
    /\ KeyOf(asset) \in DOMAIN clv_reasons
    /\ Head(clv_reasons[KeyOf(asset)]) = "erro_processamento: "

\* The trades of the token stamped strictly before the position's start
TradesBefore(asset) == FilteredDf(asset, positions[LookupRow(asset)].start_time)

\* C11 as stated (zero-trade skip): after the loop, every position with a
\* defined closing price whose processing did not raise and that has no
\* trade strictly before its start time (only later trades, or no fetched
\* trade at all) has no result and has its composite key recorded with the
\* reason sem_trades_pre_market.
C11_ZeroTradeSkip ==
    LoopOver =>
        \A a \in PositionAssets :
            (ClosingDefined(a) /\ ~Raised(a) /\ TradesBefore(a) = << >>) =>
                /\ KeyOf(a) \notin DOMAIN clv_results
                /\ KeyOf(a) \in DOMAIN clv_reasons
                /\ clv_reasons[KeyOf(a)] = << "sem_trades_pre_market" >>

\* The rows of trades_df that belong to the token and whose timestamp,
\* brought to whole seconds, is strictly less than the position's start
BeforeStart(asset) ==
    { i \in DOMAIN trades_df.rows :
        /\ trades_df.rows[i].asset = asset
        /\ trades_df.rows[i].timestamp \div MsPerSecond
              < positions[LookupRow(asset)].start_time }

RECURSIVE SizeSum(_)
SizeSum(S) ==
    IF S = {} THEN 0
    ELSE LET i == CHOOSE j \in S : TRUE
         IN  trades_df.rows[i].size + SizeSum(S \ {i})

RECURSIVE VolumeSum(_)
VolumeSum(S) ==
    IF S = {} THEN 0
    ELSE LET i == CHOOSE j \in S : TRUE
         IN  trades_df.rows[i].size * trades_df.rows[i].price + VolumeSum(S \ {i})

\* The worked example in units of 0.0001: trades (0.40, 100) and (0.60, 50)
\* before start, closing price 0.55
ExampleTrades ==
    << [asset |-> 1, timestamp |-> 10 * MsPerSecond, size |-> 100, price |-> 4000],
       [asset |-> 1, timestamp |-> 20 * MsPerSecond, size |-> 50, price |-> 6000] >>

\* value is the fraction f rounded to the nearest unit
RoundsTo(f, value) ==
    /\ f.den > 0
    /\ 2 * (value * f.den - f.num) <= f.den
    /\ 2 * (f.num - value * f.den) <= f.den

\* C12 (CLV value): every recorded result belongs to a position key with a
\* defined closing price; its avg_price is sum(size*price) / sum(size) over
\* exactly the trades of the key's group whose timestamp in whole seconds is
\* strictly before the position's start, so that later trades never count;
\* its price_clv is closing - avg_price. For the worked example the average
\* is 0.4667 and price_clv 0.0833.
C12_ClvValue ==
    /\ \A a \in 1 .. NumAssets + 1 :
          KeyOf(a) \in DOMAIN clv_results =>
              LET r == clv_results[KeyOf(a)]
              IN  /\ a \in PositionAssets
                  /\ ClosingDefined(a)
                  /\ r.closing_price = clv_df.match_start_price[LookupRow(a)][1]
                  /\ r.avg_price.den = SizeSum(BeforeStart(a))
                  /\ r.avg_price.den > 0
                  /\ r.avg_price.num = VolumeSum(BeforeStart(a))
                  /\ r.price_clv.den = r.avg_price.den
                  /\ r.price_clv.num =
                        r.closing_price * r.avg_price.den - r.avg_price.num
    /\ RoundsTo(avg_price(ExampleTrades), 4667)
    /\ RoundsTo(price_clv(5500, avg_price(ExampleTrades)), 833)

C12_Witness ==
    /\ clv_pc = "returned"
    /\ \E a \in PositionAssets :
          /\ KeyOf(a) \in DOMAIN clv_results
          /\ Cardinality(BeforeStart(a)) = 2
          /\ \E i \in BeforeStart(a) : \E j \in BeforeStart(a) :
                /\ trades_df.rows[i].price # trades_df.rows[j].price
                /\ trades_df.rows[i].size > 0
                /\ trades_df.rows[j].size > 0
          /\ \E i \in DOMAIN positions :
                positions[i].asset = a /\ clv_returned.price_clv[i] # NaN

\* The tokens that have a group in trades_df
TradedAssets == { trades_df.rows[i].asset : i \in DOMAIN trades_df.rows }

AllKeys == { KeyOf(a) : a \in 1 .. NumAssets + 1 }

\* C33 (result/reason exclusivity): at every point of calculate_clv no
\* composite key has both a result and a reason, only keys of tokens are
\* recorded, a key with a result is a position key with a defined closing
\* price whose trades strictly before start have a non-zero total size, and
\* the key of a traded token that is not a position has neither; after the
\* loop every traded position key with an undefined closing price has the
\* reason closing_price_is_nan and no result, whatever its trades are.
C33_ResultReasonExclusive ==
    /\ DOMAIN clv_results \cap DOMAIN clv_reasons = {}
    /\ DOMAIN clv_results \cup DOMAIN clv_reasons \subseteq AllKeys
    /\ \A a \in 1 .. NumAssets + 1 :
          /\ KeyOf(a) \in DOMAIN clv_results =>
                /\ a \in PositionAssets
                /\ ClosingDefined(a)
                /\ SizeSum(BeforeStart(a)) # 0
          /\ a \notin PositionAssets =>
                /\ KeyOf(a) \notin DOMAIN clv_results
                /\ KeyOf(a) \notin DOMAIN clv_reasons
    /\ LoopOver =>
          \A a \in PositionAssets \cap TradedAssets :
             ~ ClosingDefined(a) =>
                /\ KeyOf(a) \in DOMAIN clv_reasons
                /\ clv_reasons[KeyOf(a)] = << "closing_price_is_nan" >>
                /\ KeyOf(a) \notin DOMAIN clv_results

\* C33 witness: the loop is over; a position with an undefined closing
\* price has a trade of non-zero size before its start and the reason
\* closing_price_is_nan, and the group of a token that is no position left
\* neither a result nor a reason.
C33_Witness ==
    /\ LoopOver
    /\ \E a \in PositionAssets :
          /\ ~ ClosingDefined(a)
          /\ SizeSum(BeforeStart(a)) > 0
          /\ KeyOf(a) \in DOMAIN clv_reasons
          /\ clv_reasons[KeyOf(a)] = << "closing_price_is_nan" >>
    /\ \E a \in TradedAssets \ PositionAssets :
          KeyOf(a) \notin DOMAIN clv_results \cup DOMAIN clv_reasons

\* What is recorded for the keys other than k
OthersOf(f, k) == [j \in DOMAIN f \ {k} |-> f[j]]

\* The key of the group the loop is about to process
GroupKey == KeyOf(Head(groups))

\* The step records an exception for the key
RaisedNow(k) ==
    /\ k \notin DOMAIN clv_reasons
    /\ k \in DOMAIN clv_reasons'
    /\ Head(clv_reasons'[k]) = "erro_processamento: "

\* C34 (per-key failure isolation): every iteration of the loop, one that
\* raises included, goes on to the rest of the groups and leaves the results
\* and reasons of every other key as they are; an exception leaves the
\* results untouched and records for its key 'erro_processamento: ' followed
\* by at most 50 characters.  After the loop every traded position key
\* whose group did not raise has what its own closing price and trades
\* give (a result when the closing price is defined and the size before
\* start is non-zero, else its reason), whatever was raised for the other
\* keys, and calculate_clv goes on to map the results and return.
C34_FailureIsolation ==
    /\ [][(clv_pc = "loop" /\ groups # << >>) =>
             /\ clv_pc' = "loop"
             /\ groups' = Tail(groups)
             /\ OthersOf(clv_results', GroupKey) = OthersOf(clv_results, GroupKey)
             /\ OthersOf(clv_reasons', GroupKey) = OthersOf(clv_reasons, GroupKey)
             /\ RaisedNow(GroupKey) =>
                   /\ clv_results' = clv_results
                   /\ Len(clv_reasons'[GroupKey]) <= 1 + MessageKept]_vars
    /\ [](\A a \in PositionAssets :
             Raised(a) =>
                /\ KeyOf(a) \notin DOMAIN clv_results
                /\ Len(clv_reasons[KeyOf(a)]) <= 1 + MessageKept)
    /\ []((clv_pc = "loop" /\ groups = << >>) =>
             /\ ENABLED MapResults
             /\ \A a \in (PositionAssets \cap TradedAssets) :
                   ~ Raised(a) =>
                      IF ~ ClosingDefined(a)
                      THEN /\ KeyOf(a) \in DOMAIN clv_reasons
                           /\ clv_reasons[KeyOf(a)] = << "closing_price_is_nan" >>
                      ELSE IF SizeSum(BeforeStart(a)) = 0
                      THEN /\ KeyOf(a) \in DOMAIN clv_reasons
                           /\ clv_reasons[KeyOf(a)] = << "sem_trades_pre_market" >>
                      ELSE /\ KeyOf(a) \in DOMAIN clv_results
                           /\ clv_results[KeyOf(a)].avg_price.num =
                                 VolumeSum(BeforeStart(a))
                           /\ clv_results[KeyOf(a)].avg_price.den =
                                 SizeSum(BeforeStart(a)))

\* C34 witness: calculate_clv has returned; the group of one position
\* raised and its reason holds 50 characters of the message, the other
\* position has its result and its price_clv in the returned dataset.
C34_Witness ==
    /\ clv_pc = "returned"
    /\ \E a, b \in PositionAssets :
          /\ Raised(a)
          /\ Len(clv_reasons[KeyOf(a)]) = 1 + MessageKept
          /\ KeyOf(b) \in DOMAIN clv_results
          /\ \E i \in DOMAIN positions :
                positions[i].asset = b /\ clv_returned.price_clv[i] # NaN

(***************************************************************************)
(* Reference price: extract_match_start_price (src/price_history.py)       *)
(***************************************************************************)
\* Bounds of the model
MaxHours == 1            \* largest max_hours_before tried
MaxHistory == 3          \* entries of the history list

\* Program constant: seconds of an hour (max_hours_before * 3600)
SecondsPerHour == 3600

nonPriceVars == << gateVars, pagerVars, pnlVars, graphVars, clvVars, delayVars,
    splitVars, rowVars, metaVars >>

\* The match starts late enough for every look-back window to begin after 0
MatchTs == (MaxHours + 1) * SecondsPerHour

\* Timestamps around the two ends of every look-back window
EntryTimes ==
    UNION { { MatchTs - h * SecondsPerHour - 1, MatchTs - h * SecondsPerHour }
              : h \in 0 .. MaxHours }
    \cup { MatchTs + 1 }

\* A history entry: its "t" (<< >> when the key is missing) and its price
HistoryEntries ==
    [t : { << v >> : v \in EntryTimes } \cup { << >> }, p : 1 .. MaxPrice]

\* What get_price_history can hand over: None, a dict without "history",
\* a dict whose "history" is a list (the empty one included)
PriceHistories ==
    { [kind |-> k, history |-> << >>] : k \in {"none", "no_history"} }
    \cup { [kind |-> "dict", history |-> h] :
             h \in UNION { [1 .. n -> HistoryEntries] : n \in 0 .. MaxHistory } }

PriceInit ==
    /\ GateIdle
    /\ PagerIdle
    /\ PnlIdle
    /\ GraphIdle
    /\ ClvIdle
    /\ DelayIdle
    /\ SplitIdle
    /\ RowsIdle
    /\ MetaIdle
    /\ price_history \in PriceHistories
    /\ match_ts = MatchTs
    /\ max_hours_before \in 1 .. MaxHours
    /\ price_pc = "call"
    /\ price_result = << >>

None == << >>

\* entry.get("t", 0)
EntryTs(entry) == IF entry.t = << >> THEN 0 ELSE entry.t[1]

\* The test that lets an entry into valid_entries
AtAnyTime(entry_ts, min_ts, at) == TRUE
InWindow(entry_ts, min_ts, at) == min_ts <= entry_ts /\ entry_ts <= at

\* sorted(..., key=t, reverse=True): a stable sort, entries with equal t
\* keep their order
RECURSIVE InsertDescending(_, _)
InsertDescending(e, sorted) ==
    IF sorted = << >> THEN << e >>
    ELSE IF EntryTs(e) >= EntryTs(Head(sorted)) THEN << e >> \o sorted
    ELSE << Head(sorted) >> \o InsertDescending(e, Tail(sorted))

RECURSIVE SortedDescending(_)
SortedDescending(entries) ==
    IF entries = << >> THEN << >>
    ELSE InsertDescending(Head(entries), SortedDescending(Tail(entries)))

extract_match_start_price(ph, at, hours) ==
    IF ph.kind # "dict" THEN None
    ELSE IF ph.history = << >> THEN None
    ELSE LET min_ts == at - hours * SecondsPerHour
             valid_entries ==
                 SelectSeq(ph.history, LAMBDA e : InWindow(EntryTs(e), min_ts, at))
         IN  IF valid_entries = << >> THEN None
             ELSE << Head(SortedDescending(valid_entries)) >>

ExtractMatchStartPrice ==
    /\ price_pc = "call"
    /\ price_result' =
          extract_match_start_price(price_history, match_ts, max_hours_before)
    /\ price_pc' = "returned"
    /\ UNCHANGED << price_history, match_ts, max_hours_before >>
    /\ UNCHANGED nonPriceVars

PriceNext == ExtractMatchStartPrice

PriceSpec == PriceInit /\ [][PriceNext]_vars

(***************************************************************************)
(* Claims on the reference price                                           *)
(***************************************************************************)
\* The entries of the history that carry a timestamp within the look-back
\* window that ends at match start
WindowEntries ==
    { i \in DOMAIN price_history.history :
        /\ price_history.history[i].t # << >>
        /\ match_ts - SecondsPerHour * max_hours_before <= price_history.history[i].t[1]
        /\ price_history.history[i].t[1] <= match_ts }

\* C13 (reference price selection): extract_match_start_price returns None
\* when no history entry lies in the window [match_ts - 3600 *
\* max_hours_before, match_ts]; otherwise it returns an entry of the history
\* that lies in the window and whose timestamp is the greatest of the
\* window, whatever the order of the list: never an entry after match start
\* nor one older than the window.
C13_ReferencePrice ==
    price_pc = "returned" =>
        IF WindowEntries = {}
        THEN price_result = None
        ELSE /\ price_result # None
             /\ \E i \in WindowEntries : price_history.history[i] = price_result[1]
             /\ \A i \in WindowEntries :
                   price_history.history[i].t[1] <= price_result[1].t[1]

C13_Witness ==
    /\ price_pc = "returned"
    /\ price_result # None
    /\ Cardinality(WindowEntries) >= 2
    /\ price_history.history[1].t # << >>
    /\ price_history.history[1].t[1] > match_ts
    /\ price_history.history[2] # price_result[1]
    /\ price_history.history[3] = price_result[1]
    /\ price_result[1].t[1] < match_ts

(***************************************************************************)
(* Backoff of the offset pager on HTTP 429: page (src/fetch.py) and the    *)
(* identical _fetch_page (rest_api/fetch.py)                               *)
(***************************************************************************)
\* Bounds of the model
MaxProcessId == 6        \* largest process_id tried
MaxRetryCount == 6       \* largest retry_count handed to page

\* Program constants of page; delays are counted in tenths of a second
base_delay == 2
max_delay == 60
TenthsPerSecond == 10
JitterLow == 1           \* random.uniform(0.1, 0.5), lower end in tenths
JitterHigh == 5          \* random.uniform(0.1, 0.5), upper end in tenths

nonDelayVars == << gateVars, pagerVars, pnlVars, graphVars, clvVars, priceVars,
    splitVars, rowVars, metaVars >>

DelayInit ==
    /\ GateIdle
    /\ PagerIdle
    /\ PnlIdle
    /\ GraphIdle
    /\ ClvIdle
    /\ PriceIdle
    /\ SplitIdle
    /\ RowsIdle
    /\ MetaIdle
    /\ delay_process_id \in 0 .. MaxProcessId
    /\ delay_retry_count = 0
    /\ total_delay = << >>
    /\ previous_delay = << >>

\* min(base_delay * (2 ** retry_count), max_delay), in tenths of a second
exponential_delay(retry_count) ==
    TenthsPerSecond * Min2(base_delay * (2 ^ retry_count), max_delay)

\* random.uniform(0.1, 0.5) * (process_id or 1) for the draw u (in tenths)
jitter(u, process_id) == u * (IF process_id = 0 THEN 1 ELSE process_id)

\* One more 429 at the same offset: page computes the delay and sleeps,
\* fetch_range calls it again with retry_count + 1
RateLimited(u) ==
    /\ delay_retry_count <= MaxRetryCount
    /\ u \in JitterLow .. JitterHigh
    /\ previous_delay' = total_delay
    /\ total_delay' =
          << exponential_delay(delay_retry_count) + jitter(u, delay_process_id) >>
    /\ delay_retry_count' = delay_retry_count + 1
    /\ UNCHANGED delay_process_id
    /\ UNCHANGED nonDelayVars

DelayNext == \E u \in JitterLow .. JitterHigh : RateLimited(u)

DelaySpec == DelayInit /\ [][DelayNext]_vars

(***************************************************************************)
(* Claims on the backoff                                                   *)
(***************************************************************************)
\* retry_count of the latest and of the previous 429
LatestRetry == delay_retry_count - 1
PreviousRetry == delay_retry_count - 2

Capped(retry_count) == base_delay * (2 ^ retry_count) >= max_delay

\* C15 as stated (backoff monotonicity): over consecutive 429 responses at
\* one offset the delay never decreases from one retry to the next while
\* the exponential term of the earlier one is below the cap, for every
\* process id and every jitter draw; and once the exponential term has
\* reached the cap the delay lies in [cap, cap + largest jitter].
C15_BackoffMonotone ==
    /\ (previous_delay # << >> /\ ~Capped(PreviousRetry)) =>
          previous_delay[1] <= total_delay[1]
    /\ (total_delay # << >> /\ Capped(LatestRetry)) =>
          /\ TenthsPerSecond * max_delay <= total_delay[1]
          /\ total_delay[1] <= TenthsPerSecond * max_delay
                                  + jitter(JitterHigh, delay_process_id)

(***************************************************************************)
(* Position splitting: split_positions                                     *)
(* (src/striker_polymarket_api/subgraph_api/fetch_subgraph.py)             *)
(***************************************************************************)
\* Bound of the model
MaxRawPositions == 3        \* positions of the input list

nonSplitVars == << gateVars, pagerVars, pnlVars, graphVars, clvVars, priceVars,
    delayVars, rowVars, metaVars >>

\* A position without the key "balance"
Absent == "<absent>"

\* The balances tried: the string "0", strings that are zero as numbers but
\* not "0", a non-zero balance, JSON null and no balance at all
Balances == {"0", "00", "0.0", "1", "null", Absent}

\* The raw positions: position i of the list has id i
RawPositions ==
    UNION { { [i \in 1 .. n |-> [id |-> i, balance |-> b[i]]] :
                b \in [1 .. n -> Balances] } : n \in 0 .. MaxRawPositions }

SplitInit ==
    /\ GateIdle
    /\ PagerIdle
    /\ PnlIdle
    /\ GraphIdle
    /\ ClvIdle
    /\ PriceIdle
    /\ DelayIdle
    /\ RowsIdle
    /\ MetaIdle
    /\ raw_positions \in RawPositions
    /\ split_pc = "loop"
    /\ split_i = 1
    /\ active = << >>
    /\ closed = << >>

\* pos.get("balance", "0")
GetBalanceOrEmpty(pos) == IF pos.balance = Absent THEN "" ELSE pos.balance
GetBalance(pos) == IF pos.balance = Absent THEN "0" ELSE pos.balance

\* One iteration of the for loop
SplitOne ==
    /\ split_pc = "loop"
    /\ split_i <= Len(raw_positions)
    /\ LET pos == raw_positions[split_i]
           balance_str == GetBalance(pos)
       IN  IF balance_str = "0"
           THEN closed' = Append(closed, pos) /\ UNCHANGED active
           ELSE active' = Append(active, pos) /\ UNCHANGED closed
    /\ split_i' = split_i + 1
    /\ UNCHANGED << raw_positions, split_pc >>
    /\ UNCHANGED nonSplitVars

\* return active, closed
SplitReturns ==
    /\ split_pc = "loop"
    /\ split_i > Len(raw_positions)
    /\ split_pc' = "returned"
    /\ UNCHANGED << raw_positions, split_i, active, closed >>
    /\ UNCHANGED nonSplitVars

SplitNext == SplitOne \/ SplitReturns

SplitSpec == SplitInit /\ [][SplitNext]_vars

(***************************************************************************)
(* Claims on the position splitting                                        *)
(***************************************************************************)
\* The list keeps the positions in the order of the input
InInputOrder(list) ==
    \A i, j \in DOMAIN list : i < j => list[i].id < list[j].id

\* C28 (position splitting is a partition): when split_positions returns,
\* every input position is in exactly one of the two lists, in closed if and
\* only if its balance is the string "0" or it has no balance, in active
\* otherwise; the two lengths add up to the input length, no list holds a
\* position twice, and each list is in input order.
C28_SplitPartition ==
    split_pc = "returned" =>
       /\ \A i \in DOMAIN raw_positions :
             LET pos == raw_positions[i]
                 zero == pos.balance = "0" \/ pos.balance = Absent
             IN  /\ pos \in Range(closed) <=> zero
                 /\ pos \in Range(active) <=> ~zero
       /\ Range(active) \cup Range(closed) = Range(raw_positions)
       /\ Len(active) + Len(closed) = Len(raw_positions)
       /\ InInputOrder(active)
       /\ InInputOrder(closed)

\* C28 witness: of three positions the first has no balance, the second has
\* "0.0" and the third "0": the first and the third are closed, in that
\* order, the second is active.
C28_Witness ==
    /\ split_pc = "returned"
    /\ Len(raw_positions) = 3
    /\ raw_positions[1].balance = Absent
    /\ raw_positions[2].balance = "0.0"
    /\ raw_positions[3].balance = "0"
    /\ closed = << raw_positions[1], raw_positions[3] >>
    /\ active = << raw_positions[2] >>

(***************************************************************************)
(* Per-row reference prices: process_dataframe and process_batch           *)
(* (src/price_history.py)                                                  *)
(***************************************************************************)
\* Bounds of the model
MaxRows == 3                \* rows of the dataset
MaxRowProcesses == 3        \* num_processes

nonRowVars == << gateVars, pagerVars, pnlVars, graphVars, clvVars, priceVars,
    delayVars, splitVars, metaVars >>

\* What process_batch meets in a row: an empty or 'nan' market id or start
\* time, a start time pd.to_datetime rejects, a price lookup that raises, or
\* a lookup that returns a price
RowKinds == {"incomplete", "bad_start_time", "lookup_raises", "priced"}

\* The datasets of n rows: row p carries the index label idx; a dataset built
\* by pd.concat without ignore_index carries a label more than once
RowDatasets(n) ==
    { [p \in 1 .. n |-> [idx |-> l[p], kind |-> k[p]]] :
         l \in [1 .. n -> 1 .. n], k \in [1 .. n -> RowKinds] }

\* The price get_match_start_price returns for row p
RowPrice(p) == << p >>

RowsInit ==
    /\ GateIdle
    /\ PagerIdle
    /\ PnlIdle
    /\ GraphIdle
    /\ ClvIdle
    /\ PriceIdle
    /\ DelayIdle
    /\ SplitIdle
    /\ MetaIdle
    /\ \E n \in 0 .. MaxRows : row_df \in RowDatasets(n)
    /\ row_num_processes \in 1 .. MaxRowProcesses
    /\ row_pc = "start"
    /\ batches = << >>
    /\ row_future = << >>
    /\ results = << >>
    /\ all_results = << >>
    /\ result_df = << >>

Max2(a, b) == IF a >= b THEN a ELSE b

\* events_per_process = max(1, total_rows // num_processes)
events_per_process(total_rows, n) == Max2(1, total_rows \div n)

\* rows_data_list: one (idx, row_dict) per row of df.iterrows(); pos is the
\* place of the row in df
rows_data_list(df) ==
    [p \in DOMAIN df |-> [pos |-> p, idx |-> df[p].idx, kind |-> df[p].kind]]

\* lst[start:end]
Slice(lst, start, end) ==
    [k \in 1 .. (Min2(end, Len(lst)) - Min2(start, Len(lst))) |->
        lst[Min2(start, Len(lst)) + k]]

\* end_idx of batch i (i from 0)
end_idx(i, n, per_process, total_rows) ==
    IF i < n - 1 THEN (i + 1) * per_process ELSE total_rows

\* The for loop that fills batches: the non-empty slices, with process_id i + 1
BatchesOf(df, n) ==
    LET total_rows == Len(df)
        per_process == events_per_process(total_rows, n)
        slice(i) == Slice(rows_data_list(df), i * per_process,
                          end_idx(i, n, per_process, total_rows))
        every == [j \in 1 .. n |-> [batch_data |-> slice(j - 1), process_id |-> j]]
    IN  SelectSeq(every, LAMBDA b : b.batch_data # << >>)

\* process_dataframe up to the submission of the batches
Submit ==
    /\ row_pc = "start"
    /\ row_pc' = "pool"
    /\ result_df' = [p \in DOMAIN row_df |-> None]
    /\ batches' = BatchesOf(row_df, row_num_processes)
    /\ row_future' = [b \in DOMAIN batches' |-> "running"]
    /\ results' = [b \in DOMAIN batches' |-> [batch_idx |-> 1, results |-> << >>]]
    /\ UNCHANGED << row_df, row_num_processes, all_results >>
    /\ UNCHANGED nonRowVars

\* What one iteration of the loop of process_batch appends
RowResult(row) ==
    CASE row.kind = "incomplete"     -> << row.idx, None >>
      [] row.kind = "bad_start_time" -> << row.idx, None >>
      [] row.kind = "lookup_raises"  -> << row.idx, None >>
      [] OTHER                       -> << row.idx, RowPrice(row.pos) >>

\* One iteration of the for loop of process_batch in the process of batch b
ProcessRow(b) ==
    /\ row_pc = "pool"
    /\ row_future[b] = "running"
    /\ results[b].batch_idx <= Len(batches[b].batch_data)
    /\ LET row == batches[b].batch_data[results[b].batch_idx]
       IN  results' = [results EXCEPT
                          ![b].results = Append(@, RowResult(row)),
                          ![b].batch_idx = @ + 1]
    /\ UNCHANGED << row_df, row_num_processes, row_pc, batches, row_future,
                    all_results, result_df >>
    /\ UNCHANGED nonRowVars

\* return results
BatchReturns(b) ==
    /\ row_pc = "pool"
    /\ row_future[b] = "running"
    /\ results[b].batch_idx > Len(batches[b].batch_data)
    /\ row_future' = [row_future EXCEPT ![b] = "done"]
    /\ UNCHANGED << row_df, row_num_processes, row_pc, batches, results,
                    all_results, result_df >>
    /\ UNCHANGED nonRowVars

\* The process of batch b is lost: future.result() will raise
FutureRaises(b) ==
    /\ row_pc = "pool"
    /\ row_future[b] = "running"
    /\ row_future' = [row_future EXCEPT ![b] = "raised"]
    /\ UNCHANGED << row_df, row_num_processes, row_pc, batches, results,
                    all_results, result_df >>
    /\ UNCHANGED nonRowVars

\* One iteration of `for future in as_completed(futures)`
CollectBatch(b) ==
    /\ row_pc = "pool"
    /\ row_future[b] \in {"done", "raised"}
    /\ all_results' = IF row_future[b] = "done"
                      THEN all_results \o results[b].results
                      ELSE all_results
    /\ row_future' = [row_future EXCEPT
                         ![b] = IF @ = "done" THEN "collected" ELSE "skipped"]
    /\ UNCHANGED << row_df, row_num_processes, row_pc, batches, results,
                    result_df >>
    /\ UNCHANGED nonRowVars

\* result_df.at[idx, 'match_start_price'] = price: the assignment is by index
\* label, so it reaches every row that carries the label
AtAssign(column, idx, price) ==
    [p \in DOMAIN column |-> IF row_df[p].idx = idx THEN price ELSE column[p]]

RECURSIVE ApplyResults(_, _)
ApplyResults(column, pairs) ==
    IF pairs = << >> THEN column
    ELSE ApplyResults(AtAssign(column, Head(pairs)[1], Head(pairs)[2]), Tail(pairs))

\* The pool is left, the results are applied and result_df is returned
ApplyAndReturn ==
    /\ row_pc = "pool"
    /\ \A b \in DOMAIN batches : row_future[b] \in {"collected", "skipped"}
    /\ result_df' = ApplyResults(result_df, all_results)
    /\ row_pc' = "returned"
    /\ UNCHANGED << row_df, row_num_processes, batches, row_future, results,
                    all_results >>
    /\ UNCHANGED nonRowVars

RowsNext ==
    \/ Submit
    \/ \E b \in DOMAIN batches :
          \/ ProcessRow(b)
          \/ BatchReturns(b)
          \/ FutureRaises(b)
          \/ CollectBatch(b)
    \/ ApplyAndReturn

RowsSpec == RowsInit /\ [][RowsNext]_vars

(***************************************************************************)
(* Claims on the per-row reference prices                                  *)
(***************************************************************************)
\* The places (batch, position in the batch) that hold row p
RowPlaces(p) ==
    { bk \in { << b, k >> : b \in DOMAIN batches, k \in DOMAIN row_df } :
         /\ bk[2] \in DOMAIN batches[bk[1]].batch_data
         /\ batches[bk[1]].batch_data[bk[2]].pos = p }

\* The batch of row p was collected
RowCollected(p) ==
    \E bk \in RowPlaces(p) : row_future[bk[1]] = "collected"

RowFails(p) == row_df[p].kind # "priced"

\* No index label is carried by two rows
UniqueLabels ==
    \A p, q \in DOMAIN row_df : row_df[p].idx = row_df[q].idx => p = q

\* Every row is in exactly one batch and no batch is empty
RowsAssignedOnce ==
    row_pc # "start" =>
       /\ \A p \in DOMAIN row_df : Cardinality(RowPlaces(p)) = 1
       /\ \A b \in DOMAIN batches : batches[b].batch_data # << >>

\* A batch that returned gives one pair per row it received, in order, with
\* the row's label, and None for a row that fails
OnePairPerRow ==
    \A b \in DOMAIN batches :
       row_future[b] \in {"done", "collected"} =>
          /\ Len(results[b].results) = Len(batches[b].batch_data)
          /\ \A k \in DOMAIN batches[b].batch_data :
                LET row == batches[b].batch_data[k]
                    pair == results[b].results[k]
                IN  /\ pair[1] = row.idx
                    /\ RowFails(row.pos) => pair[2] = None
                    /\ ~ RowFails(row.pos) => pair[2] = RowPrice(row.pos)

\* In the returned dataset a failing row has None and the None of a failing
\* row has replaced the price of no other collected row
FailureKeptToItsRow ==
    row_pc = "returned" =>
       \A p \in DOMAIN row_df :
          /\ RowFails(p) => result_df[p] = None
          /\ (~ RowFails(p) /\ RowCollected(p)) => result_df[p] # None

\* C38 (row coverage in process_dataframe): for every total_rows and
\* num_processes, every input row is assigned to exactly one non-empty
\* batch, process_batch returns exactly one (index, price-or-None) pair for
\* each row it receives, and a row whose data is incomplete, whose start time
\* cannot be parsed or whose price lookup fails gets None without changing
\* the result of any other row.
C38_RowCoverage ==
    /\ RowsAssignedOnce
    /\ OnePairPerRow
    /\ FailureKeptToItsRow

\* The same statement for the datasets whose index labels are unique
RowCoverageUniqueLabels == UniqueLabels => C38_RowCoverage

\* A row count the processes do not divide: three rows with unique labels in
\* two batches, the second row fails and the other two keep their prices
RowShapesReached ==
    /\ row_pc = "returned"
    /\ Len(row_df) = 3
    /\ row_num_processes = 2
    /\ UniqueLabels
    /\ Len(batches) = 2
    /\ Len(batches[2].batch_data) = 2
    /\ \A p \in DOMAIN row_df : RowCollected(p)
    /\ row_df[1].kind = "priced"
    /\ row_df[2].kind = "lookup_raises"
    /\ row_df[3].kind = "priced"
    /\ result_df = << RowPrice(1), None, RowPrice(3) >>

(***************************************************************************)
(* Market metadata: _fetch_market_data                                     *)
(* (src/striker_polymarket_api/rest_api/fetch.py) and fetch_market_data    *)
(* (src/fetch.py)                                                          *)
(***************************************************************************)
\* Bounds of the model
MaxSlugs == 3               \* unique slugs of the dataset
MaxMetaBatch == 2           \* batch_size

nonMetaVars == << gateVars, pagerVars, pnlVars, graphVars, clvVars, priceVars,
    delayVars, splitVars, rowVars >>

MetaFunctions == {"_fetch_market_data", "fetch_market_data"}

\* {'tags': [], 'start_time': None, 'volume': None}
DefaultMetadata == [tags |-> << >>, start_time |-> None, volume |-> None]

\* The metadata the server holds for a slug
ServerMetadata(slug) ==
    [tags |-> << "label" >>, start_time |-> << slug >>, volume |-> << slug >>]

\* unique_slugs[i:i+batch_size]
BatchSlugs ==
    { unique_slugs[k] :
        k \in { j \in DOMAIN unique_slugs :
                  meta_i < j /\ j <= meta_i + meta_batch_size } }

\* What requests.get does for a batch: it raises, it answers 200 with the
\* markets of some of the slugs, or it answers another status with a body
\* that is an empty JSON list, a JSON object or no JSON at all
MetaAnswers ==
    { [kind |-> "exception", status |-> 0, body |-> "none", markets |-> {}] }
    \cup { [kind |-> "response", status |-> 200, body |-> "list", markets |-> ms] :
             ms \in SUBSET BatchSlugs }
    \cup { [kind |-> "response", status |-> 500, body |-> b, markets |-> {}] :
             b \in {"list", "object", "not_json"} }

MetaInit ==
    /\ GateIdle
    /\ PagerIdle
    /\ PnlIdle
    /\ GraphIdle
    /\ ClvIdle
    /\ PriceIdle
    /\ DelayIdle
    /\ SplitIdle
    /\ RowsIdle
    /\ meta_fn \in MetaFunctions
    /\ unique_slugs \in { [k \in 1 .. n |-> k] : n \in 0 .. MaxSlugs }
    /\ meta_batch_size \in 1 .. MaxMetaBatch
    /\ meta_i = 0
    /\ all_data_dict = << >>
    /\ meta_pc = "loop"
    /\ meta_failed = {}

\* d.update(e)
DictUpdate(d, e) == e @@ d

\* for slug in batch_slugs: all_data_dict[slug] = {'tags': [], ...}
WithDefaults(d, slugs) == DictUpdate(d, [s \in slugs |-> DefaultMetadata])

\* The batch failed: not response or response.status_code != 200
BatchFailed(answer) == answer.kind = "exception" \/ answer.status # 200

\* _process_market_batch(response.json()) of a response
ProcessMarketBatchRaises(answer) ==
    \/ answer.kind = "exception"         \* response is None: None.json()
    \/ answer.body = "not_json"          \* response.json() raises
    \/ answer.body = "object"            \* market.get on a key of the object

ProcessMarketBatch(answer) == [s \in answer.markets |-> ServerMetadata(s)]

\* One iteration of the for loop of _fetch_market_data: the defaults of a
\* failed batch are followed by response.json() whatever the response was
FetchMarketDataBatch(answer) ==
    LET filled == IF BatchFailed(answer)
                  THEN WithDefaults(all_data_dict, BatchSlugs)
                  ELSE all_data_dict
    IN  IF ProcessMarketBatchRaises(answer)
        THEN /\ all_data_dict' = filled
             /\ meta_pc' = "raised"
             /\ UNCHANGED meta_i
        ELSE /\ all_data_dict' = DictUpdate(filled, ProcessMarketBatch(answer))
             /\ meta_i' = meta_i + meta_batch_size
             /\ UNCHANGED meta_pc

\* One iteration of the for loop of fetch_market_data
FetchPyMarketDataBatch(answer) ==
    /\ all_data_dict' =
          IF ~ BatchFailed(answer)
          THEN DictUpdate(all_data_dict,
                          ProcessMarketBatch(answer) @@
                          [s \in BatchSlugs |-> DefaultMetadata])
          ELSE WithDefaults(all_data_dict, BatchSlugs)
    /\ meta_i' = meta_i + meta_batch_size
    /\ UNCHANGED meta_pc

MetaBatch(answer) ==
    /\ meta_pc = "loop"
    /\ meta_i < Len(unique_slugs)
    /\ IF meta_fn = "_fetch_market_data"
       THEN FetchMarketDataBatch(answer)
       ELSE FetchPyMarketDataBatch(answer)
    /\ meta_failed' = IF BatchFailed(answer)
                      THEN meta_failed \cup BatchSlugs
                      ELSE meta_failed
    /\ UNCHANGED << meta_fn, unique_slugs, meta_batch_size >>
    /\ UNCHANGED nonMetaVars

\* The loop is over: the dictionary is merged into df and returned
MetaReturns ==
    /\ meta_pc = "loop"
    /\ meta_i >= Len(unique_slugs)
    /\ meta_pc' = "returned"
    /\ UNCHANGED << meta_fn, unique_slugs, meta_batch_size, meta_i,
                    all_data_dict, meta_failed >>
    /\ UNCHANGED nonMetaVars

MetaNext ==
    \/ \E answer \in MetaAnswers : MetaBatch(answer)
    \/ MetaReturns

MetaSpec == MetaInit /\ [][MetaNext]_vars

(***************************************************************************)
(* Claims on the market metadata                                           *)
(***************************************************************************)
\* C39 (market-metadata batch failure): in _fetch_market_data, as in
\* fetch_market_data, a batch whose request raises a transport exception or
\* returns a non-200 status gives every slug of that batch the default
\* metadata, the loop goes on to the next batch, and the function returns
\* the merged dataset without raising.
C39_MetadataBatchFailure ==
    /\ meta_pc # "raised"
    /\ \A s \in meta_failed :
          s \in DOMAIN all_data_dict /\ all_data_dict[s] = DefaultMetadata
    /\ (meta_pc = "loop" /\ meta_failed # {}) => ENABLED MetaNext

\* The same statement for fetch_market_data of src/fetch.py alone
MetadataBatchFailureFetchPy ==
    meta_fn = "fetch_market_data" => C39_MetadataBatchFailure

\* fetch_market_data returns after a first batch whose request raised and a
\* second batch answered 200: the slugs of the first have the defaults
MetadataFailureReached ==
    /\ meta_fn = "fetch_market_data"
    /\ meta_pc = "returned"
    /\ meta_batch_size = 2
    /\ meta_failed = {1, 2}
    /\ DOMAIN all_data_dict = {1, 2, 3}
    /\ all_data_dict[1] = DefaultMetadata
    /\ all_data_dict[3] = ServerMetadata(3)

====
